---------------------------- MODULE Spec2Model ----------------------------
(***************************************************************************)
(* Verification model of the Unique-Assignment-Project batch generators    *)
(* (Ass-01.py, generate_question.py, generate_separate_questions.py).      *)
(*                                                                         *)
(* Python strings are modelled as sequences of one-character strings, so   *)
(* that slicing, parsing and substring replacement are computed the way    *)
(* the interpreter computes them.  A call that raises is modelled by a     *)
(* result record with ok = FALSE and the name of the exception in err.     *)
(***************************************************************************)
EXTENDS Integers, Sequences, FiniteSets, TLC

VARIABLES
    pc,          \* position of the caller: "ready" or "done_<function>"
    args,        \* arguments of the call under way
    result,      \* what the call returned (or the exception it raised)
    first_call,  \* generator session: the first call made, with its result
    last_call,   \* generator session: the latest call made, with its result
    ncalls,      \* generator session: number of generator calls made so far
    between,     \* generator session: calls made since first_call that had
                 \* other arguments
    script,         \* batch driver: which script runs ("a1", "a2", "sq", "gq")
    roster,         \* batch driver: the identifier cells from the start row on
    row,            \* batch driver: row
    dpc,            \* batch driver: position in the script
    count_success,  \* batch driver: count_success
    count_fail,     \* batch driver: count_fail
    count,          \* single-file generator: count
    processed,      \* batch driver: how often each roster row was rendered
    returncodes,    \* compile adapter: exit statuses of the runs of this call
    stdouts,        \* compile adapter: lines written by each run of this call
    build_ok,       \* compile adapter: build_ok
    last_stdout,    \* compile adapter: last_stdout
    polls,          \* compile adapter: looks at the PDF path made so far
    pdf_exists,     \* file system: the PDF of the current record exists
    exists_seen,    \* compile adapter: some look found the PDF
    printed,        \* compile adapter: log tails printed by this call
    compile_result, \* compile adapter: the value returned
    files,          \* file system: the files of the output directory, each
                    \* the pair of a roster row and an extension
    produced        \* file system: the rows whose PDF was there when their
                    \* record was finished

harness_vars == <<pc, args, result, first_call, last_call, ncalls, between>>

loop_vars == <<script, roster, row, dpc, count_success, count_fail, count, processed>>

compile_vars ==
    <<returncodes, stdouts, build_ok, last_stdout, polls, pdf_exists, exists_seen,
      printed, compile_result>>

fs_vars == <<files, produced>>

vars == <<harness_vars, loop_vars, compile_vars, fs_vars>>

-----------------------------------------------------------------------------
(* Results of calls *)

Ok(v) == [ok |-> TRUE, val |-> v, err |-> "none"]

Raise(e) == [ok |-> FALSE, val |-> <<>>, err |-> e]

NoResult == [ok |-> FALSE, val |-> <<>>, err |-> "not called"]

NoArgs == [fn |-> "none"]

NoCall == [args |-> NoArgs, result |-> NoResult]

Min(x, y) == IF x <= y THEN x ELSE y

\* result.stdout of the k-th run of one call, n lines long
Stdout(k, n) == [run |-> k, lines |-> n]

\* last_stdout = ""
NoStdout == Stdout(0, 0)

\* the locals of compile_latex_to_pdf outside a call
CompileIdle ==
    /\ returncodes = <<>>
    /\ stdouts = <<>>
    /\ build_ok = FALSE
    /\ last_stdout = NoStdout
    /\ polls = 0
    /\ exists_seen = FALSE
    /\ printed = <<>>
    /\ compile_result = FALSE

\* no batch driver runs
DriverIdle ==
    /\ script = "none"
    /\ roster = <<>>
    /\ row = 0
    /\ dpc = "idle"
    /\ count_success = 0
    /\ count_fail = 0
    /\ count = 0
    /\ processed = <<>>
    /\ pdf_exists = FALSE
    /\ CompileIdle
    /\ files = {}
    /\ produced = {}

-----------------------------------------------------------------------------
(* Bounds of the model *)

\* largest count n requested from the generator (the digest serves 16)
MaxN == 18

\* range bounds a and b are drawn from -RangeSpan .. RangeSpan
RangeSpan == 3

\* generator session: largest of the small counts n requested
DetMaxN == 3

\* generator session: number of generator calls in one session
MaxCalls == 3

\* variant selectors are drawn from -MaxSelector .. MaxSelector
MaxSelector == 26

\* angle indices are drawn from -IndexMargin .. 15 + IndexMargin
IndexMargin == 3

\* moduli r_val are drawn from -MaxR .. MaxR
MaxR == 9

\* longest template text given to the renderer
MaxTemplateLen == 7

\* longest name handed to safe_filename
MaxNameLen == 3

\* roster rows that may hold an identifier
MaxRows == 3

-----------------------------------------------------------------------------
(* Deterministic parameter generator *)

\* hashlib.md5(seed.encode()).hexdigest(): the digests of the seeds used here
MD5Hex ==
    ("12345Q1_n" :> <<"1","0","b","1","7","3","8","8","7","6","9","0","6","1","b","e",
                      "b","8","5","b","5","9","1","3","2","1","0","0","a","0","f","c">>) @@
    ("12345Q1_r" :> <<"e","c","3","2","3","2","1","d","d","2","6","8","e","6","a","7",
                      "a","a","6","9","e","c","2","2","c","1","6","c","b","7","b","f">>) @@
    ("12345Q2_n" :> <<"8","3","c","1","3","0","2","1","5","6","4","4","2","8","4","f",
                      "2","0","1","0","9","3","f","0","1","c","6","9","7","8","3","a">>) @@
    ("20101Q1_n" :> <<"7","7","2","4","1","c","1","c","8","a","f","9","1","a","1","0",
                      "8","e","e","5","2","7","c","f","b","9","5","c","e","3","4","a">>) @@
    ("20101Q1_r" :> <<"c","e","d","b","0","7","a","9","8","2","b","4","d","9","d","b",
                      "b","0","f","7","6","4","1","1","8","6","e","e","0","f","1","6">>) @@
    ("20101Q2_n" :> <<"4","8","f","e","a","1","e","3","b","9","3","7","0","b","6","6",
                      "4","3","b","a","7","9","d","b","7","4","e","5","e","1","b","c">>) @@
    ("23301Q1_n" :> <<"d","5","9","c","5","c","0","1","b","b","9","6","6","f","2","6",
                      "6","9","3","5","6","8","b","b","5","c","a","b","9","a","7","5">>) @@
    ("23301Q1_r" :> <<"d","f","0","f","c","e","8","8","e","1","e","8","c","c","6","f",
                      "2","9","2","0","d","9","2","4","4","e","4","b","9","c","f","a">>) @@
    ("23301Q2_n" :> <<"6","1","e","f","0","6","0","0","d","c","1","d","0","6","6","3",
                      "0","e","2","2","5","b","9","e","9","1","6","8","7","f","4","c">>) @@
    ("24141Q1_n" :> <<"a","8","a","b","c","7","0","d","8","c","d","4","9","a","6","e",
                      "2","2","c","b","8","c","1","4","d","a","9","8","1","7","4","b">>) @@
    ("24141Q1_r" :> <<"9","9","8","b","a","1","c","b","0","2","d","5","6","f","5","9",
                      "5","e","a","b","0","7","2","b","5","1","6","e","b","7","6","3">>) @@
    ("24141Q2_n" :> <<"0","8","1","4","f","f","4","7","0","0","d","1","9","3","9","5",
                      "8","0","5","2","d","c","e","b","d","3","0","3","3","1","e","c">>)

IDs == {"12345", "20101", "23301", "24141"}

Variations == {"Q1_n", "Q1_r", "Q2_n"}

\* seed = f"{ID}{variation}"; h = hashlib.md5(seed.encode()).hexdigest()
md5_hexdigest(ID, variation) == MD5Hex[ID \o variation]

\* Slice that wraps around the end of s instead of stopping there
Slice_cyclic(s, i, j) == SubSeq(s \o s, (i % Len(s)) + 1, (i % Len(s)) + (j - i))

\* Python's s[i:j] for 0 <= i <= j: clamped to the end of s, empty beyond it
Slice(s, i, j) == SubSeq(s, i + 1, Min(j, Len(s)))

\* the digits int(., 32) accepts, in the order of their values 0 .. 31
Base32Digits ==
    <<"0","1","2","3","4","5","6","7","8","9","a","b","c","d","e","f",
      "g","h","i","j","k","l","m","n","o","p","q","r","s","t","u","v">>

DigitValue(c) == (CHOOSE k \in 1..Len(Base32Digits) : Base32Digits[k] = c) - 1

IsDigit(c, radix) == \E k \in 1..radix : Base32Digits[k] = c

RECURSIVE DigitsValue(_, _)
DigitsValue(s, radix) ==
    IF s = <<>> THEN 0
    ELSE radix * DigitsValue(SubSeq(s, 1, Len(s) - 1), radix) + DigitValue(s[Len(s)])

\* int(s, radix) on a digit string: ValueError on the empty string and on a
\* character that is no digit of the radix
int_radix(s, radix) ==
    IF s = <<>> \/ \E k \in 1..Len(s) : ~IsDigit(s[k], radix)
    THEN Raise("ValueError")
    ELSE Ok(DigitsValue(s, radix))

\* Python's x % m for x >= 0: the result has the sign of m
PyMod(x, m) ==
    IF m = 0 THEN Raise("ZeroDivisionError")
    ELSE IF m > 0 THEN Ok(x % m)
    ELSE LET q == x % (0 - m) IN Ok(IF q = 0 THEN 0 ELSE q + m)

\* MapChunk reducing modulo b - a + 2
MapChunk_wide_modulus(h, i, a, b) ==
    LET parsed == int_radix(Slice(h, i, i + 2), 32)
    IN  IF ~parsed.ok THEN parsed
        ELSE LET r == PyMod(parsed.val, b - a + 2)
             IN  IF ~r.ok THEN r ELSE Ok(r.val + a)

\* MapChunk parsing the chunk as hexadecimal
MapChunk_base16(h, i, a, b) ==
    LET parsed == int_radix(Slice(h, i, i + 2), 16)
    IN  IF ~parsed.ok THEN parsed
        ELSE LET r == PyMod(parsed.val, b - a + 1)
             IN  IF ~r.ok THEN r ELSE Ok(r.val + a)

\* (int(h[i:i + 2], 32) % (b - a + 1)) + a
MapChunk(h, i, a, b) ==
    LET parsed == int_radix(Slice(h, i, i + 2), 32)
    IN  IF ~parsed.ok THEN parsed
        ELSE LET r == PyMod(parsed.val, b - a + 1)
             IN  IF ~r.ok THEN r ELSE Ok(r.val + a)

\* [ ... for i in range(0, n * 2, 2)]: the first element that raises ends it
Comprehension(h, n, a, b) ==
    LET elems == [k \in 1..n |-> MapChunk(h, 2 * (k - 1), a, b)]
    IN  IF \E k \in 1..n : ~elems[k].ok
        THEN elems[CHOOSE k \in 1..n : ~elems[k].ok /\ \A j \in 1..(k - 1) : elems[j].ok]
        ELSE Ok([k \in 1..n |-> elems[k].val])

\* A generator that reads its chunks from a position advanced by every call
generate_integers_range_stateful(ID, variation, n, a, b) ==
    LET h == md5_hexdigest(ID, variation)
        k == (2 * ncalls) % Len(h)
    IN  Comprehension(SubSeq(h, k + 1, Len(h)) \o SubSeq(h, 1, k), n, a, b)

generate_integers_range(ID, variation, n, a, b) ==
    Comprehension(md5_hexdigest(ID, variation), n, a, b)

\* generate_integer: the first chunk only, returned as a number
generate_integer(ID, variation, a, b) ==
    MapChunk(md5_hexdigest(ID, variation), 0, a, b)

GenArgs ==
    [fn : {"generator"}, ID : IDs, variation : Variations, n : 0..MaxN,
     a : (0 - RangeSpan)..RangeSpan, b : (0 - RangeSpan)..RangeSpan]

\* Harness of the generator as a pure function
InitGen ==
    /\ pc = "ready"
    /\ args \in GenArgs
    /\ result = NoResult
    /\ first_call = NoCall
    /\ last_call = NoCall
    /\ ncalls = 0
    /\ between = 0
    /\ DriverIdle

CallGenerateIntegersRange ==
    /\ pc = "ready"
    /\ result' = generate_integers_range(args.ID, args.variation, args.n, args.a, args.b)
    /\ pc' = "done_generate_integers_range"
    /\ UNCHANGED <<args, first_call, last_call, ncalls, between>>
    /\ UNCHANGED <<loop_vars, compile_vars, fs_vars>>

CallGenerateInteger ==
    /\ pc = "ready"
    /\ result' = generate_integer(args.ID, args.variation, args.a, args.b)
    /\ pc' = "done_generate_integer"
    /\ UNCHANGED <<args, first_call, last_call, ncalls, between>>
    /\ UNCHANGED <<loop_vars, compile_vars, fs_vars>>

NextGen == CallGenerateIntegersRange \/ CallGenerateInteger

SpecGen == InitGen /\ [][NextGen]_vars

-----------------------------------------------------------------------------
(* A session of generator calls: the same caller calls the generator again  *)
(* and again, as the batch drivers do for every roster row                  *)

\* ranges the drivers request (Q1_n, Q1_r)
SessionRanges == {<<5, 7>>, <<2, 3>>}

\* roster identifiers of the session
SessionIDs == {"12345", "20101"}

\* counts requested in the session: the small ones and the whole digest
SessionCounts == (0..DetMaxN) \cup {Len(MD5Hex["12345Q1_n"]) \div 2}

SessionArgs ==
    {[fn |-> "generator", ID |-> i, variation |-> v, n |-> n, a |-> r[1], b |-> r[2]] :
        i \in SessionIDs, v \in Variations, n \in SessionCounts, r \in SessionRanges}

InitSession ==
    /\ pc = "session"
    /\ args = NoArgs
    /\ result = NoResult
    /\ first_call = NoCall
    /\ last_call = NoCall
    /\ ncalls = 0
    /\ between = 0
    /\ DriverIdle

SessionCall ==
    /\ ncalls < MaxCalls
    /\ \E c \in SessionArgs :
          LET r == generate_integers_range(c.ID, c.variation, c.n, c.a, c.b)
              call == [args |-> c, result |-> r]
          IN  /\ last_call' = call
              /\ first_call' = IF first_call = NoCall THEN call ELSE first_call
              /\ between' = IF first_call # NoCall /\ c # first_call.args
                             THEN between + 1 ELSE between
    /\ ncalls' = ncalls + 1
    /\ UNCHANGED <<pc, args, result>>
    /\ UNCHANGED <<loop_vars, compile_vars, fs_vars>>

NextSession == SessionCall

SpecSession == InitSession /\ [][NextSession]_vars

-----------------------------------------------------------------------------
(* Question bank: the selection of a catalog entry by arr[n - 1] *)

\* Python's arr[k]: a negative k counts from the end, IndexError outside
PyIndex(arr, k) ==
    IF 0 <= k /\ k < Len(arr) THEN Ok(arr[k + 1])
    ELSE IF k < 0 /\ 0 - Len(arr) <= k THEN Ok(arr[Len(arr) + k + 1])
    ELSE Raise("IndexError")

\* number of templates in the list arr of every question-bank function that
\* takes a variant selector (a1: Ass-01.py, a2: the Assignment-02 script of
\* generate_question.py, sq: generate_separate_questions.py)
CatalogSize ==
    ("a1.Q2_get_graphing_question_equality" :> 5) @@
    ("a1.Q3_get_graphing_question_inequality" :> 20) @@
    ("a1.Q5_get_prove_trig_hyp" :> 12) @@
    ("a1.Q6_get_solve_trig_hyp" :> 24) @@
    ("a1.Q7_get_limit_not_exists" :> 2) @@
    ("a1.Q8_get_limit_LHopital" :> 4) @@
    ("a1.Q10_get_derivative" :> 3) @@
    ("a1.Q11_get_derivative" :> 2) @@
    ("a1.Q12_get_analytic" :> 2) @@
    ("a1.Q13_get_analytic" :> 2) @@
    ("a1.Q14_get_harmonic" :> 4) @@
    ("a1.Q15_get_harmonic" :> 2) @@
    ("a2.Q1_Formula_Proof" :> 4) @@
    ("a2.Q2_Piecewise" :> 2) @@
    ("a2.Q3_First_Translation" :> 4) @@
    ("a2.Q5_Inverse_Partial" :> 2) @@
    ("a2.Q7_ODE_Third_Order" :> 2) @@
    ("a2.Q8_ODE_Second_Order" :> 2) @@
    ("a2.Q9_ODE_Second_t_trig" :> 2) @@
    ("a2.Q10_ODE_System" :> 3) @@
    ("sq.get_graphing_question_equality" :> 5) @@
    ("sq.get_graphing_question_inequality" :> 20) @@
    ("sq.get_prove_trig_hyp" :> 12) @@
    ("sq.get_solve_trig_hyp" :> 24) @@
    ("sq.Q10_get_derivative" :> 2) @@
    ("sq.Q11_get_derivative" :> 3)

Families == DOMAIN CatalogSize

\* the list arr of a function, each template named by its position in the list
Catalog(family) == [k \in 1..CatalogSize[family] |-> k]

\* s = arr[n - 1]: the template a question-bank function renders (the
\* replacements that follow it never raise), or the IndexError it raises
select_variant(family, n) == PyIndex(Catalog(family), n - 1)

BankArgs ==
    [fn : {"question_bank"}, family : Families, n : (0 - MaxSelector)..MaxSelector]

InitBank ==
    /\ pc = "ready"
    /\ args \in BankArgs
    /\ result = NoResult
    /\ first_call = NoCall
    /\ last_call = NoCall
    /\ ncalls = 0
    /\ between = 0
    /\ DriverIdle

CallQuestionBank ==
    /\ pc = "ready"
    /\ args.fn = "question_bank"
    /\ result' = select_variant(args.family, args.n)
    /\ pc' = "done_question_bank"
    /\ UNCHANGED <<args, first_call, last_call, ncalls, between>>
    /\ UNCHANGED <<loop_vars, compile_vars, fs_vars>>

NextBank == CallQuestionBank

SpecBank == InitBank /\ [][NextBank]_vars

-----------------------------------------------------------------------------
(* Angle/polar formatter.  An exact real number of the field the standard   *)
(* angles need is <<c1, c2, c3, c6>>, standing for                          *)
(* c1 + c2*sqrt(2) + c3*sqrt(3) + c6*sqrt(6); cosines and sines are kept    *)
(* doubled so that every coefficient is an integer.                         *)

AlgAdd(u, v) == <<u[1] + v[1], u[2] + v[2], u[3] + v[3], u[4] + v[4]>>

AlgNeg(u) == <<0 - u[1], 0 - u[2], 0 - u[3], 0 - u[4]>>

AlgScale(r, u) == <<r * u[1], r * u[2], r * u[3], r * u[4]>>

AlgMul(u, v) ==
    <<u[1] * v[1] + 2 * u[2] * v[2] + 3 * u[3] * v[3] + 6 * u[4] * v[4],
      u[1] * v[2] + u[2] * v[1] + 3 * (u[3] * v[4] + u[4] * v[3]),
      u[1] * v[3] + u[3] * v[1] + 2 * (u[2] * v[4] + u[4] * v[2]),
      u[1] * v[4] + u[4] * v[1] + u[2] * v[3] + u[3] * v[2]>>

\* 2*cos of the standard angles of the first quadrant, exactly
TwiceCosFirstQuadrant ==
    (0 :> <<2, 0, 0, 0>>) @@ (30 :> <<0, 0, 1, 0>>) @@ (45 :> <<0, 1, 0, 0>>) @@
    (60 :> <<1, 0, 0, 0>>) @@ (90 :> <<0, 0, 0, 0>>)

\* 2*cos(deg * pi / 180), exactly, by reduction to the first quadrant
TwiceCos(deg) ==
    LET d == deg % 360
    IN  IF d <= 90 THEN TwiceCosFirstQuadrant[d]
        ELSE IF d <= 180 THEN AlgNeg(TwiceCosFirstQuadrant[180 - d])
        ELSE IF d <= 270 THEN AlgNeg(TwiceCosFirstQuadrant[d - 180])
        ELSE TwiceCosFirstQuadrant[360 - d]

\* 2*sin(deg * pi / 180) = 2*cos((deg - 90) * pi / 180)
TwiceSin(deg) == TwiceCos(deg + 270)

\* angle_map: index -> degrees
angle_map ==
    [k \in 0..15 |->
        <<0, 30, 45, 60, 90, 120, 135, 150, 180, 210, 225, 240, 270, 300, 315, 330>>[k + 1]]

\* complex_in_latex that rejects index 0
complex_in_latex_from_one(r_val, theta_index) ==
    IF theta_index \notin (DOMAIN angle_map \ {0}) THEN Raise("ValueError")
    ELSE LET deg == angle_map[theta_index]
         IN  Ok([deg |-> deg,
                 twice_x |-> AlgScale(r_val, TwiceCos(deg)),
                 twice_y |-> AlgScale(r_val, TwiceSin(deg))])

\* complex_in_latex computing r*cos(theta) + I*sin(theta)
complex_in_latex_unscaled_sin(r_val, theta_index) ==
    IF theta_index \notin DOMAIN angle_map THEN Raise("ValueError")
    ELSE LET deg == angle_map[theta_index]
         IN  Ok([deg |-> deg,
                 twice_x |-> AlgScale(r_val, TwiceCos(deg)),
                 twice_y |-> TwiceSin(deg)])

\* complex_in_latex up to the simplified z = x + y*I (its rendering as LaTeX
\* is not modelled): the table angle and the doubled exact components
complex_in_latex(r_val, theta_index) ==
    IF theta_index \notin DOMAIN angle_map THEN Raise("ValueError")
    ELSE LET deg == angle_map[theta_index]
         IN  Ok([deg |-> deg,
                 twice_x |-> AlgScale(r_val, TwiceCos(deg)),
                 twice_y |-> AlgScale(r_val, TwiceSin(deg))])

PolarArgs ==
    [fn : {"complex_in_latex"}, r_val : (0 - MaxR)..MaxR,
     theta_index : (0 - IndexMargin)..(15 + IndexMargin)]

InitPolar ==
    /\ pc = "ready"
    /\ args \in PolarArgs
    /\ result = NoResult
    /\ first_call = NoCall
    /\ last_call = NoCall
    /\ ncalls = 0
    /\ between = 0
    /\ DriverIdle

CallComplexInLatex ==
    /\ pc = "ready"
    /\ args.fn = "complex_in_latex"
    /\ result' = complex_in_latex(args.r_val, args.theta_index)
    /\ pc' = "done_complex_in_latex"
    /\ UNCHANGED <<args, first_call, last_call, ncalls, between>>
    /\ UNCHANGED <<loop_vars, compile_vars, fs_vars>>

NextPolar == CallComplexInLatex

SpecPolar == InitPolar /\ [][NextPolar]_vars

-----------------------------------------------------------------------------
(* Template renderer *)

\* str.replace(old, new) for a non-empty old: the occurrences of old are
\* found from the left, the scan resuming after each one
RECURSIVE StrReplace(_, _, _)
StrReplace(s, old, new) ==
    IF Len(s) < Len(old) THEN s
    ELSE IF SubSeq(s, 1, Len(old)) = old
         THEN new \o StrReplace(SubSeq(s, Len(old) + 1, Len(s)), old, new)
         ELSE <<s[1]>> \o StrReplace(Tail(s), old, new)

\* decimal digits of a natural number (the first ten of Base32Digits)
RECURSIVE Decimal(_)
Decimal(i) ==
    IF i < 10 THEN <<Base32Digits[i + 1]>>
    ELSE Decimal(i \div 10) \o <<Base32Digits[(i % 10) + 1]>>

\* a value passed to the renderer: a string or an integer
StrVal(s) == [kind |-> "str", s |-> s, i |-> 0]

IntVal(i) == [kind |-> "int", s |-> <<>>, i |-> i]

\* str(val)
Str(v) ==
    IF v.kind = "str" THEN v.s
    ELSE IF v.i < 0 THEN <<"-">> \o Decimal(0 - v.i) ELSE Decimal(v.i)

\* A placeholder written without its delimiters
Placeholder_bare(key) == key

\* f"@{key}@"
Placeholder(key) == <<"@">> \o key \o <<"@">>

\* replace_placeholders returning from inside the loop, after the first key
RECURSIVE replace_placeholders_first_key(_, _)
replace_placeholders_first_key(template_text, kwargs) ==
    IF kwargs = <<>> THEN template_text
    ELSE StrReplace(template_text, Placeholder(kwargs[1].key), Str(kwargs[1].val))

\* replace_placeholders that also drops the delimiters it did not consume
RECURSIVE replace_placeholders_strip_unknown(_, _)
replace_placeholders_strip_unknown(template_text, kwargs) ==
    IF kwargs = <<>> THEN SelectSeq(template_text, LAMBDA c : c # "@")
    ELSE replace_placeholders_strip_unknown(
             StrReplace(template_text, Placeholder(kwargs[1].key), Str(kwargs[1].val)),
             Tail(kwargs))

\* for key, val in kwargs.items():
\*     template_text = template_text.replace(f"@{key}@", str(val))
\* (replace_placeholders and replace_template_placeholders alike); kwargs is
\* the sequence of the keyword arguments in the order they were passed
RECURSIVE replace_placeholders(_, _)
replace_placeholders(template_text, kwargs) ==
    IF kwargs = <<>> THEN template_text
    ELSE replace_placeholders(
             StrReplace(template_text, Placeholder(kwargs[1].key), Str(kwargs[1].val)),
             Tail(kwargs))

TemplateChars == {"@", "A", " "}

Templates == UNION {[1..n -> TemplateChars] : n \in 0..MaxTemplateLen}

Keys == {<<"A">>, <<"B">>}

Values ==
    {StrVal(<<>>), StrVal(<<"A", " ">>), StrVal(<<"@", "A", "@">>),
     StrVal(<<"@", "B", "@">>), IntVal(7)}

\* keyword arguments: every key at most once, in any order
Kwargs ==
    {<<>>}
    \cup {<<[key |-> k, val |-> v]>> : k \in Keys, v \in Values}
    \cup {kw \in {<<[key |-> k1, val |-> v1], [key |-> k2, val |-> v2]>> :
                       k1 \in Keys, k2 \in Keys, v1 \in Values, v2 \in Values} :
             kw[1].key # kw[2].key}

RenderArgs == [fn : {"replace_placeholders"}, template : Templates, kwargs : Kwargs]

\* "Hello @Name@, ID @ID@"
GreetingTemplate ==
    <<"H", "e", "l", "l", "o", " ", "@", "N", "a", "m", "e", "@", ",", " ",
      "I", "D", " ", "@", "I", "D", "@">>

\* "Hello @Name@, ID @ID@ @Extra@"
GreetingTemplateExtra ==
    GreetingTemplate \o <<" ", "@", "E", "x", "t", "r", "a", "@">>

\* Name="Alice", ID=7
GreetingKwargs ==
    <<[key |-> <<"N", "a", "m", "e">>, val |-> StrVal(<<"A", "l", "i", "c", "e">>)],
      [key |-> <<"I", "D">>, val |-> IntVal(7)]>>

GreetingArgs ==
    [fn : {"replace_placeholders"},
     template : {GreetingTemplate, GreetingTemplateExtra},
     kwargs : {GreetingKwargs}]

\* the keyword arguments of one call passed in every other order
Reorderings(kwargs) ==
    {[i \in DOMAIN kwargs |-> kwargs[p[i]]] :
        p \in {f \in [DOMAIN kwargs -> DOMAIN kwargs] :
                  \A i, j \in DOMAIN kwargs : f[i] = f[j] => i = j}}

InitRender ==
    /\ pc = "ready"
    /\ args \in RenderArgs \cup GreetingArgs
    /\ result = NoResult
    /\ first_call = NoCall
    /\ last_call = NoCall
    /\ ncalls = 0
    /\ between = 0
    /\ DriverIdle

\* tex = replace_placeholders(template, **kwargs)
CallReplacePlaceholders ==
    /\ pc = "ready"
    /\ args.fn = "replace_placeholders"
    /\ result' = Ok(<<replace_placeholders(args.template, args.kwargs)>>)
    /\ pc' = "done_replace_placeholders"
    /\ UNCHANGED <<args, first_call, last_call, ncalls, between>>
    /\ UNCHANGED <<loop_vars, compile_vars, fs_vars>>

\* tex2 = replace_placeholders(tex, **kwargs): the output rendered again
CallReplacePlaceholdersAgain ==
    /\ pc = "done_replace_placeholders"
    /\ result' = Ok(Append(result.val, replace_placeholders(result.val[1], args.kwargs)))
    /\ pc' = "done_replace_placeholders_again"
    /\ UNCHANGED <<args, first_call, last_call, ncalls, between>>
    /\ UNCHANGED <<loop_vars, compile_vars, fs_vars>>

\* the same call with the keyword arguments passed in another order
CallReplacePlaceholdersReordered ==
    /\ pc = "ready"
    /\ args.fn = "replace_placeholders"
    /\ \E reordered \in Reorderings(args.kwargs) :
           result' = Ok(<<replace_placeholders(args.template, args.kwargs),
                          replace_placeholders(args.template, reordered)>>)
    /\ pc' = "done_replace_placeholders_reordered"
    /\ UNCHANGED <<args, first_call, last_call, ncalls, between>>
    /\ UNCHANGED <<loop_vars, compile_vars, fs_vars>>

NextRender ==
    \/ CallReplacePlaceholders
    \/ CallReplacePlaceholdersAgain
    \/ CallReplacePlaceholdersReordered

SpecRender == InitRender /\ [][NextRender]_vars

-----------------------------------------------------------------------------
(* Question bank: the text a question function returns *)

\* A template is the sequence of its characters.  In the catalogs whose
\* functions replace only @key@ placeholders, a run of three or more
\* characters between two "@" (or a template end) is kept as one element: no
\* key is longer than two characters and no replacement shortens a run, so
\* such a run is never part of a match.  The catalogs of Q2, Q3 and Q6 of
\* Ass-01.py, whose functions replace bare patterns, are kept character by
\* character.  The characters outside ASCII (in "L'Hopital's" and
\* "Cauchy-Riemann") are written by their ASCII look-alikes.

\* arr of Q2_get_graphing_question_equality (Ass-01.py)
Q2_get_graphing_question_equality_arr ==
    <<<<"\\", "l", "e", "f", "t", "|", "\\", "f", "r", "a", "c", "{", "z", "+", "a", "i", "}", "{", "z", "-", "a", "i", "}", "\\", "r", "i", "g", "h", "t", "|", "=", "@", "b", "@">>,
      <<"|", "z", "+", "a", "|", "+", "|", "z", "-", "a", "|", "=", "2", "a", "+", "b">>,
      <<"|", "z", "+", "a", "i", "|", "+", "|", "z", "-", "a", "i", "|", "=", "2", "a", "+", "b">>,
      <<"|", "z", "-", "a", "|", "-", "|", "z", "+", "a", "|", "=", "2", "a", "-", "b">>,
      <<"|", "z", "-", "a", "i", "|", "-", "|", "z", "+", "a", "i", "|", "=", "2", "a", "-", "b">>>>

\* arr of Q3_get_graphing_question_inequality (Ass-01.py)
Q3_get_graphing_question_inequality_arr ==
    <<<<"\\", "l", "e", "f", "t", "|", "\\", "f", "r", "a", "c", "{", "z", "+", "a", "i", "}", "{", "z", "-", "a", "i", "}", "\\", "r", "i", "g", "h", "t", "|", " ", "<", " ", "@", "b", "@">>,
      <<"\\", "l", "e", "f", "t", "|", "\\", "f", "r", "a", "c", "{", "z", "+", "a", "i", "}", "{", "z", "-", "a", "i", "}", "\\", "r", "i", "g", "h", "t", "|", " ", ">", " ", "@", "b", "@">>,
      <<"\\", "l", "e", "f", "t", "|", "\\", "f", "r", "a", "c", "{", "z", "+", "a", "i", "}", "{", "z", "-", "a", "i", "}", "\\", "r", "i", "g", "h", "t", "|", " ", "\\", "l", "e", " ", "@", "b", "@">>,
      <<"\\", "l", "e", "f", "t", "|", "\\", "f", "r", "a", "c", "{", "z", "+", "a", "i", "}", "{", "z", "-", "a", "i", "}", "\\", "r", "i", "g", "h", "t", "|", " ", "\\", "g", "e", " ", "@", "b", "@">>,
      <<"|", "z", "+", "a", "|", "+", "|", "z", "-", "a", "|", " ", "<", " ", "2", "a", "+", "b">>,
      <<"|", "z", "+", "a", "|", "+", "|", "z", "-", "a", "|", " ", ">", " ", "2", "a", "+", "b">>,
      <<"|", "z", "+", "a", "|", "+", "|", "z", "-", "a", "|", " ", "\\", "l", "e", " ", "2", "a", "+", "b">>,
      <<"|", "z", "+", "a", "|", "+", "|", "z", "-", "a", "|", " ", "\\", "g", "e", " ", "2", "a", "+", "b">>,
      <<"|", "z", "+", "a", "i", "|", "+", "|", "z", "-", "a", "i", "|", " ", "<", " ", "2", "a", "+", "b">>,
      <<"|", "z", "+", "a", "i", "|", "+", "|", "z", "-", "a", "i", "|", " ", ">", " ", "2", "a", "+", "b">>,
      <<"|", "z", "+", "a", "i", "|", "+", "|", "z", "-", "a", "i", "|", " ", "\\", "l", "e", " ", "2", "a", "+", "b">>,
      <<"|", "z", "+", "a", "i", "|", "+", "|", "z", "-", "a", "i", "|", " ", "\\", "g", "e", " ", "2", "a", "+", "b">>,
      <<"|", "z", "-", "a", "|", "-", "|", "z", "+", "a", "|", " ", "<", " ", "2", "a", "-", "b">>,
      <<"|", "z", "-", "a", "|", "-", "|", "z", "+", "a", "|", " ", ">", " ", "2", "a", "-", "b">>,
      <<"|", "z", "-", "a", "|", "-", "|", "z", "+", "a", "|", " ", "\\", "l", "e", " ", "2", "a", "-", "b">>,
      <<"|", "z", "-", "a", "|", "-", "|", "z", "+", "a", "|", " ", "\\", "g", "e", " ", "2", "a", "-", "b">>,
      <<"|", "z", "-", "a", "i", "|", "-", "|", "z", "+", "a", "i", "|", " ", "<", " ", "2", "a", "-", "b">>,
      <<"|", "z", "-", "a", "i", "|", "-", "|", "z", "+", "a", "i", "|", " ", ">", " ", "2", "a", "-", "b">>,
      <<"|", "z", "-", "a", "i", "|", "-", "|", "z", "+", "a", "i", "|", " ", "\\", "l", "e", " ", "2", "a", "-", "b">>,
      <<"|", "z", "-", "a", "i", "|", "-", "|", "z", "+", "a", "i", "|", " ", "\\", "g", "e", " ", "2", "a", "-", "b">>>>

\* arr of Q6_get_solve_trig_hyp (Ass-01.py)
Q6_get_solve_trig_hyp_arr ==
    <<<<"\\", "s", "i", "n", " ", "z", " ", "=", " ", "a", "+", "b", "i">>,
      <<"\\", "s", "i", "n", " ", "z", " ", "=", " ", "a", "-", "b", "i">>,
      <<"\\", "c", "o", "s", " ", "z", " ", "=", " ", "a", "+", "b", "i">>,
      <<"\\", "c", "o", "s", " ", "z", " ", "=", " ", "a", "-", "b", "i">>,
      <<"\\", "t", "a", "n", " ", "z", " ", "=", " ", "a", "+", "b", "i">>,
      <<"\\", "t", "a", "n", " ", "z", " ", "=", " ", "a", "-", "b", "i">>,
      <<"\\", "c", "o", "s", "e", "c", " ", "z", " ", "=", " ", "a", "+", "b", "i">>,
      <<"\\", "c", "o", "s", "e", "c", " ", "z", " ", "=", " ", "a", "-", "b", "i">>,
      <<"\\", "s", "e", "c", " ", "z", " ", "=", " ", "a", "+", "b", "i">>,
      <<"\\", "s", "e", "c", " ", "z", " ", "=", " ", "a", "-", "b", "i">>,
      <<"\\", "c", "o", "t", " ", "z", " ", "=", " ", "a", "+", "b", "i">>,
      <<"\\", "c", "o", "t", " ", "z", " ", "=", " ", "a", "-", "b", "i">>,
      <<"\\", "s", "i", "n", "h", " ", "z", " ", "=", " ", "a", "+", "b", "i">>,
      <<"\\", "s", "i", "n", "h", " ", "z", " ", "=", " ", "a", "-", "b", "i">>,
      <<"\\", "c", "o", "s", "h", " ", "z", " ", "=", " ", "a", "+", "b", "i">>,
      <<"\\", "c", "o", "s", "h", " ", "z", " ", "=", " ", "a", "-", "b", "i">>,
      <<"\\", "t", "a", "n", "h", " ", "z", " ", "=", " ", "a", "+", "b", "i">>,
      <<"\\", "t", "a", "n", "h", " ", "z", " ", "=", " ", "a", "-", "b", "i">>,
      <<"\\", "c", "o", "s", "e", "c", "h", " ", "z", " ", "=", " ", "a", "+", "b", "i">>,
      <<"\\", "c", "o", "s", "e", "c", "h", " ", "z", " ", "=", " ", "a", "-", "b", "i">>,
      <<"\\", "s", "e", "c", "h", " ", "z", " ", "=", " ", "a", "+", "b", "i">>,
      <<"\\", "s", "e", "c", "h", " ", "z", " ", "=", " ", "a", "-", "b", "i">>,
      <<"\\", "c", "o", "t", "h", " ", "z", " ", "=", " ", "a", "+", "b", "i">>,
      <<"\\", "c", "o", "t", "h", " ", "z", " ", "=", " ", "a", "-", "b", "i">>>>

\* arr of Q8_get_limit_LHopital (Ass-01.py)
Q8_get_limit_LHopital_arr ==
    <<<<"Using L'Hopital's rule, evaluate $$ \\lim_{z \\to 0} \\left( \\frac{\\sin z}{z} \\right)^{\\frac{", "@", "a", "@", " \\sin(z)}{z - \\sin z}}.$$">>,
      <<"Using L'Hopital's rule, evaluate $$ \\lim_{z \\to 0} \\left( \\frac{\\tan z}{z} \\right)^{\\frac{", "@", "a", "@", " \\sin(z)}{z - \\sin z}}.$$">>,
      <<"Using L'Hopital's rule, evaluate $$ \\lim_{z \\to 0} \\left( \\cos z \\right)^{\\frac{", "@", "a", "@", " \\sin(z)}{z - \\sin z}}.$$">>,
      <<"Using L'Hopital's rule, evaluate $$ \\lim_{z \\to 0} \\left( \\sec z \\right)^{\\frac{", "@", "a", "@", " \\sin(z)}{z - \\sin z}}.$$">>>>

\* arr of Q10_get_derivative (Ass-01.py)
Q10_get_derivative_arr ==
    <<<<"Using the definition, find the derivative of $ \\displaystyle f(z) = \\frac{", "@", "a", "@", "z", "-", "@", "b", "@", "}", "{", "@", "c", "@", "z", "+", "@", "d", "@", "i} \\quad \\text{at} \\quad z = i$.">>,
      <<"Using the definition, find the derivative of $ \\displaystyle f(z) = \\frac{", "@", "a", "@", "}", "{", "@", "b", "@", "z + ", "@", "c", "@", "} \\quad \\text{at} \\quad z = z_0$.">>,
      <<"Using the definition, find the derivative of $ \\displaystyle f(z) = \\frac{", "@", "a", "@", "}{z^2} \\quad \\text{at} \\quad z = ", "@", "b", "@", "+", "@", "c", "@", "i$.">>>>

\* arr of Q11_get_derivative (Ass-01.py)
Q11_get_derivative_arr ==
    <<<<"Using the definition, show that $$f(z)=", "@", "a", "@", "z^3 + ", "@", "b", "@", "z - ", "@", "c", "@", "$$ is differentiable at all points. Also find the derivative.">>,
      <<"Using the definition, show that $$f(z)=", "@", "a", "@", "z\\bar{z} - ", "@", "b", "@", "z + ", "@", "c", "@", "\\bar{z}$$ is not differentiable at any point.">>>>

\* arr of Q12_get_analytic (Ass-01.py)
Q12_get_analytic_arr ==
    <<<<"Consider the function \\[ f(z) = ", "@", "a", "@", " \\sin(", "@", "b", "@", "z) - ", "@", "c", "@", " \\cosh(", "@", "d", "@", "z).\\] Using the Cauchy-Riemann equations, determine whether the function is analytic.">>,
      <<"Consider the function \\[ f(z) = ", "@", "a", "@", " \\sinh(", "@", "b", "@", "z) - ", "@", "c", "@", " \\cos(", "@", "d", "@", "z).\\] Using the Cauchy-Riemann equations, determine whether the function is analytic.">>>>

\* arr of Q13_get_analytic (Ass-01.py)
Q13_get_analytic_arr ==
    <<<<"Consider the function \\[ f(z) = ", "@", "a", "@", "|z|^2 + ", "@", "b", "@", "z - ", "@", "c", "@", "\\bar{z}.\\] Using the Cauchy-Riemann equations, determine whether the function is analytic.">>,
      <<"Consider the function \\[ f(z) = ", "@", "a", "@", "ze^{-", "@", "b", "@", "z}.\\] Using the Cauchy-Riemann equations, determine whether the function is analytic.">>>>

\* arr of Q14_get_harmonic (Ass-01.py)
Q14_get_harmonic_arr ==
    <<<<"Show that the function \\[ U(x,y) = ", "@", "a", "@", " e^{-", "@", "b", "@", "x}\\cos(", "@", "b", "@", "y)\\;-\\; ", "@", "c", "@", " e^{", "@", "d", "@", "y}\\sin(", "@", "d", "@", "x) \\;+\\; ", "@", "3", "e", "@", "\\,x^2y \\;-\\; ", "@", "f", "@", "x^2 \\;-\\; ", "@", "e", "@", "y^3 \\;+\\; ", "@", "f", "@", "y^2 \\] is harmonic. Find the harmonic conjugate \\textbf{$V$} of \\textbf{$U$} such that \\textbf{$U+Vi$} becomes analytic.">>,
      <<"Show that the function \\[ V(x,y) = ", "@", "a", "@", " e^{-", "@", "b", "@", "x}\\cos(", "@", "b", "@", "y)\\;-\\; ", "@", "c", "@", " e^{", "@", "d", "@", "y}\\sin(", "@", "d", "@", "x) \\;+\\; ", "@", "3", "e", "@", "\\,x^2y \\;-\\; ", "@", "f", "@", "x^2 \\;-\\; ", "@", "e", "@", "y^3 \\;+\\; ", "@", "f", "@", "y^2 \\] is harmonic. Find the harmonic conjugate \\textbf{$U$} of \\textbf{$V$} such that \\textbf{$U+Vi$} becomes analytic.">>,
      <<"Show that the function \\[ U(x,y) = ", "@", "a", "@", " \\sin(", "@", "b", "@", "x)\\cosh(", "@", "b", "@", "y) \\;+\\; ", "@", "3", "c", "@", "\\,x^2y \\;-\\; ", "@", "d", "@", "x^2 \\;-\\; ", "@", "c", "@", "y^3 \\;+\\; ", "@", "d", "@", "y^2 \\] is harmonic. Find the harmonic conjugate \\textbf{$V$} of \\textbf{$U$} such that \\textbf{$U+Vi$} becomes analytic.">>,
      <<"Show that the function \\[ V(x,y) = ", "@", "a", "@", " \\sin(", "@", "b", "@", "x)\\cosh(", "@", "b", "@", "y) \\;+\\; ", "@", "3", "c", "@", "\\,x^2y \\;-\\; ", "@", "d", "@", "x^2 \\;-\\; ", "@", "c", "@", "y^3 \\;+\\; ", "@", "d", "@", "y^2 \\] is harmonic. Find the harmonic conjugate \\textbf{$U$} of \\textbf{$V$} such that \\textbf{$U+Vi$} becomes analytic.">>>>

\* arr of Q15_get_harmonic (Ass-01.py)
Q15_get_harmonic_arr ==
    <<<<"Show that the function \\[ U(x,y) = ", "@", "a", "@", "\\, x e^{-", "@", "b", "@", "x}\\cos(", "@", "b", "@", "y) \\;+\\; ", "@", "a", "@", "\\, y e^{-", "@", "b", "@", "x}\\sin(", "@", "b", "@", "y) \\] is harmonic. Find the harmonic conjugate \\textbf{$V$} of \\textbf{$U$} such that \\textbf{$U+Vi$} becomes analytic.">>,
      <<"Show that the function \\[ V(x,y) = ", "@", "a", "@", "\\, x e^{-", "@", "b", "@", "x}\\cos(", "@", "b", "@", "y) \\;+\\; ", "@", "a", "@", "\\, y e^{-", "@", "b", "@", "x}\\sin(", "@", "b", "@", "y) \\] is harmonic. Find the harmonic conjugate \\textbf{$U$} of \\textbf{$V$} such that \\textbf{$U+Vi$} becomes analytic.">>>>

\* arr of Q2_Piecewise (generate_question.py)
Q2_Piecewise_arr ==
    <<<<"Using definition, find the Laplace transform of the piecewise function \\[ f(t)= \\begin{cases} ", "@", "a", "@", " \\sin ", "@", "b", "@", "t, & 0\\le t<\\pi,\\\\[4pt] 0, & t\\ge \\pi. \\end{cases} \\]">>,
      <<"Using definition, find the Laplace transform of the piecewise function \\[ f(t)= \\begin{cases} 0, & 0\\le t<\\pi,\\\\[4pt] ", "@", "a", "@", " \\cos ", "@", "b", "@", "t, & t\\ge \\pi. \\end{cases} \\]">>>>

\* arr of Q3_First_Translation (generate_question.py)
Q3_First_Translation_arr ==
    <<<<"Find the Laplace transform of the piecewise function \\[ f(t)= t e^{-", "@", "a", "@", "t} \\sin(", "@", "b", "@", "t) \\sin(", "@", "c", "@", "t) \\]">>,
      <<"Find the Laplace transform of the piecewise function \\[ f(t)= t e^{", "@", "a", "@", "t} \\cos(", "@", "b", "@", "t) \\cos(", "@", "c", "@", "t) \\]">>,
      <<"Find the Laplace transform of the piecewise function \\[ f(t)= t e^{-", "@", "a", "@", "t} \\sin(", "@", "b", "@", "t) \\cos(", "@", "c", "@", "t) \\]">>,
      <<"Find the Laplace transform of the piecewise function \\[ f(t)= t e^{", "@", "a", "@", "t} \\cos(", "@", "b", "@", "t) \\sin(", "@", "c", "@", "t) \\]">>>>

\* s of Q6_ODE_First_Order (generate_question.py)
Q6_ODE_First_Order_arr ==
    <<<<"Use the Laplace transform to solve the given differential equation \\[ y' + y = e^{-", "@", "a", "@", "t}\\cos(", "@", "b", "@", "t),\\qquad y(0)=0. \\]">>>>

\* arr of Q10_get_derivative (generate_separate_questions.py)
sq_Q10_get_derivative_arr ==
    <<<<"Using the definition show that $$f(z)=", "@", "a", "@", "z^2 + ", "@", "b", "@", "z - ", "@", "c", "@", "$$ is differentiable at all points. Also find the derivative.">>,
      <<"Using the definition show that $$f(z)=", "@", "a", "@", "z\\bar{z} - ", "@", "b", "@", "z + ", "@", "c", "@", "\\bar{z}$$ is not differentiable at $z=0$.">>>>

\* arr of Q11_get_derivative (generate_separate_questions.py)
sq_Q11_get_derivative_arr ==
    <<<<"Using the definition, find the derivative of \\[f(z) = \\frac{", "@", "a", "@", "z", "-", "@", "b", "@", "}", "{", "@", "c", "@", "z", "+", "@", "d", "@", "i} \\quad \\text{at} \\quad z = i\\].">>,
      <<"Using the definition, find the derivative of \\[f(z) = \\frac{", "@", "a", "@", "}", "{", "@", "b", "@", "z + ", "@", "c", "@", "} \\quad \\text{at} \\quad z = z_0\\].">>,
      <<"Using the definition, find the derivative of \\[f(z) = \\frac{", "@", "a", "@", "}{z^2} \\quad \\text{at} \\quad z = ", "@", "b", "@", "+", "@", "c", "@", "i\\].">>>>

\* s.replace(old1, new1).replace(old2, new2)...
RECURSIVE ReplaceChain(_, _)
ReplaceChain(s, chain) ==
    IF chain = <<>> THEN s
    ELSE ReplaceChain(StrReplace(s, chain[1][1], chain[1][2]), Tail(chain))

\* str(i) of an integer
IntStr(i) == Str(IntVal(i))

\* s = arr[n - 1] followed by the function's replacements
RenderVariant(arr, n, chain) ==
    LET s == PyIndex(arr, n - 1)
    IN  IF s.ok THEN Ok(ReplaceChain(s.val, chain)) ELSE s

\* rf"...{s}..."
Embed(before, s, after) ==
    IF s.ok THEN Ok(<<before>> \o s.val \o <<after>>) ELSE s

\* the replacements of both graphing functions of Ass-01.py
GraphingChain(a, b) ==
    <<<<Placeholder(<<"b">>), IntStr(b)>>,
      <<<<"z", "+", "a">>, <<"z", "+">> \o IntStr(a)>>,
      <<<<"z", "-", "a">>, <<"z", "-">> \o IntStr(a)>>,
      <<<<"2", "a", "+", "b">>, IntStr(2 * a + b)>>,
      <<<<"2", "a", "-", "b">>, IntStr(2 * a - b)>>>>

Q2_get_graphing_question_equality(n, a, b) ==
    Embed("Describe the equation $\\displaystyle ",
          RenderVariant(Q2_get_graphing_question_equality_arr, n, GraphingChain(a, b)),
          "$ graphically on the complex plane.")

Q3_get_graphing_question_inequality(n, a, b) ==
    Embed("Describe the region $\\displaystyle ",
          RenderVariant(Q3_get_graphing_question_inequality_arr, n, GraphingChain(a, b)),
          "$ graphically on the complex plane.")

Q6_get_solve_trig_hyp(n, a, b) ==
    Embed("Solve for $z$ where \\[",
          RenderVariant(Q6_get_solve_trig_hyp_arr, n,
              <<<<<<"a", "+", "b">>, IntStr(a) \o <<"+">> \o IntStr(b)>>,
                <<<<"a", "-", "b">>, IntStr(a) \o <<"-">> \o IntStr(b)>>>>),
          ".\\]")

\* .replace("@key@", str(val)) of one parameter
Fill(key, val) == <<Placeholder(<<key>>), IntStr(val)>>

Q8_get_limit_LHopital(n, a, b) ==
    RenderVariant(Q8_get_limit_LHopital_arr, n, <<Fill("a", a), Fill("b", b)>>)

Q10_get_derivative(n, a, b, c, d) ==
    RenderVariant(Q10_get_derivative_arr, n,
        <<Fill("a", a), Fill("b", b), Fill("c", c), Fill("d", d)>>)

Q11_get_derivative(n, a, b, c) ==
    RenderVariant(Q11_get_derivative_arr, n, <<Fill("a", a), Fill("b", b), Fill("c", c)>>)

Q12_get_analytic(n, a, b, c, d) ==
    RenderVariant(Q12_get_analytic_arr, n,
        <<Fill("a", a), Fill("b", b), Fill("c", c), Fill("d", d)>>)

Q13_get_analytic(n, a, b, c) ==
    RenderVariant(Q13_get_analytic_arr, n, <<Fill("a", a), Fill("b", b), Fill("c", c)>>)

\* Q14_get_harmonic without its last two replacements
Q14_get_harmonic_single_letters(n, a, b, c, d, e, f) ==
    RenderVariant(Q14_get_harmonic_arr, n,
        <<Fill("a", a), Fill("b", b), Fill("c", c), Fill("d", d), Fill("e", e),
          Fill("f", f)>>)

Q14_get_harmonic(n, a, b, c, d, e, f) ==
    RenderVariant(Q14_get_harmonic_arr, n,
        <<Fill("a", a), Fill("b", b), Fill("c", c), Fill("d", d), Fill("e", e),
          Fill("f", f),
          <<Placeholder(<<"3", "c">>), IntStr(3 * c)>>,
          <<Placeholder(<<"3", "e">>), IntStr(3 * e)>>>>)

Q15_get_harmonic(n, a, b) ==
    RenderVariant(Q15_get_harmonic_arr, n, <<Fill("a", a), Fill("b", b)>>)

Q2_Piecewise(n, a, b) ==
    RenderVariant(Q2_Piecewise_arr, n, <<Fill("a", a), Fill("b", b)>>)

Q3_First_Translation(n, a, b, c) ==
    RenderVariant(Q3_First_Translation_arr, n, <<Fill("a", a), Fill("b", b), Fill("c", c)>>)

\* the one template of Q6_ODE_First_Order, which takes no selector
Q6_ODE_First_Order(a, b) ==
    Ok(ReplaceChain(Q6_ODE_First_Order_arr[1], <<Fill("a", a), Fill("b", b)>>))

sq_Q10_get_derivative(n, a, b, c) ==
    RenderVariant(sq_Q10_get_derivative_arr, n, <<Fill("a", a), Fill("b", b), Fill("c", c)>>)

sq_Q11_get_derivative(n, a, b, c, d) ==
    RenderVariant(sq_Q11_get_derivative_arr, n,
        <<Fill("a", a), Fill("b", b), Fill("c", c), Fill("d", d)>>)

\* number of integer parameters of the question functions that substitute
\* parameters into a template
ParameterCount ==
    ("a1.Q2_get_graphing_question_equality" :> 2) @@
    ("a1.Q3_get_graphing_question_inequality" :> 2) @@
    ("a1.Q6_get_solve_trig_hyp" :> 2) @@
    ("a1.Q8_get_limit_LHopital" :> 2) @@
    ("a1.Q10_get_derivative" :> 4) @@
    ("a1.Q11_get_derivative" :> 3) @@
    ("a1.Q12_get_analytic" :> 4) @@
    ("a1.Q13_get_analytic" :> 3) @@
    ("a1.Q14_get_harmonic" :> 6) @@
    ("a1.Q15_get_harmonic" :> 2) @@
    ("a2.Q2_Piecewise" :> 2) @@
    ("a2.Q3_First_Translation" :> 3) @@
    ("a2.Q6_ODE_First_Order" :> 2) @@
    ("sq.Q10_get_derivative" :> 3) @@
    ("sq.Q11_get_derivative" :> 4)

\* the call fn(n, *p)
question(fn, n, p) ==
    CASE fn = "a1.Q2_get_graphing_question_equality" ->
             Q2_get_graphing_question_equality(n, p[1], p[2])
      [] fn = "a1.Q3_get_graphing_question_inequality" ->
             Q3_get_graphing_question_inequality(n, p[1], p[2])
      [] fn = "a1.Q6_get_solve_trig_hyp" -> Q6_get_solve_trig_hyp(n, p[1], p[2])
      [] fn = "a1.Q8_get_limit_LHopital" -> Q8_get_limit_LHopital(n, p[1], p[2])
      [] fn = "a1.Q10_get_derivative" -> Q10_get_derivative(n, p[1], p[2], p[3], p[4])
      [] fn = "a1.Q11_get_derivative" -> Q11_get_derivative(n, p[1], p[2], p[3])
      [] fn = "a1.Q12_get_analytic" -> Q12_get_analytic(n, p[1], p[2], p[3], p[4])
      [] fn = "a1.Q13_get_analytic" -> Q13_get_analytic(n, p[1], p[2], p[3])
      [] fn = "a1.Q14_get_harmonic" ->
             Q14_get_harmonic(n, p[1], p[2], p[3], p[4], p[5], p[6])
      [] fn = "a1.Q15_get_harmonic" -> Q15_get_harmonic(n, p[1], p[2])
      [] fn = "a2.Q2_Piecewise" -> Q2_Piecewise(n, p[1], p[2])
      [] fn = "a2.Q3_First_Translation" -> Q3_First_Translation(n, p[1], p[2], p[3])
      [] fn = "a2.Q6_ODE_First_Order" -> Q6_ODE_First_Order(p[1], p[2])
      [] fn = "sq.Q10_get_derivative" -> sq_Q10_get_derivative(n, p[1], p[2], p[3])
      [] fn = "sq.Q11_get_derivative" -> sq_Q11_get_derivative(n, p[1], p[2], p[3], p[4])

\* integer parameters: negative, one digit, two digits
ParameterValues == {0 - 7, 3, 12}

\* valid selectors of a function (Q6_ODE_First_Order takes none)
Selectors(fn) ==
    IF fn \in DOMAIN CatalogSize THEN 1..CatalogSize[fn] ELSE {1}

QuestionArgs ==
    UNION {[fn : {fn}, n : Selectors(fn), p : [1..ParameterCount[fn] -> ParameterValues]] :
              fn \in DOMAIN ParameterCount}

InitQuestion ==
    /\ pc = "ready"
    /\ args \in QuestionArgs
    /\ result = NoResult
    /\ first_call = NoCall
    /\ last_call = NoCall
    /\ ncalls = 0
    /\ between = 0
    /\ DriverIdle

CallQuestion ==
    /\ pc = "ready"
    /\ args.fn \in DOMAIN ParameterCount
    /\ result' = question(args.fn, args.n, args.p)
    /\ pc' = "done_question"
    /\ UNCHANGED <<args, first_call, last_call, ncalls, between>>
    /\ UNCHANGED <<loop_vars, compile_vars, fs_vars>>

NextQuestion == CallQuestion

SpecQuestion == InitQuestion /\ [][NextQuestion]_vars

-----------------------------------------------------------------------------
(* File names *)

\* characters matched by \w (letters, digits, underscore) among those used
WordChars == {"A", "a", "7", "_", "U", "n", "k", "o", "w"}

\* characters matched by \s among those used
WhitespaceChars == {" ", "\t", "\n"}

\* re.sub(r"[^\w\s-]", "", s): only word characters, whitespace and hyphens
\* are kept
ReSubKeep(s) ==
    SelectSeq(s, LAMBDA c : c \in WordChars \cup WhitespaceChars \cup {"-"})

\* s.strip(): leading and trailing whitespace removed
RECURSIVE Strip(_)
Strip(s) ==
    IF s = <<>> THEN s
    ELSE IF Head(s) \in WhitespaceChars THEN Strip(Tail(s))
    ELSE IF s[Len(s)] \in WhitespaceChars THEN Strip(SubSeq(s, 1, Len(s) - 1))
    ELSE s

\* the value of an empty cell
NoneValue == [kind |-> "None", s |-> <<>>, i |-> 0]

\* Python truth value of a cell value: None, "" and 0 are false
Falsy(v) ==
    \/ v.kind = "None"
    \/ v.kind = "str" /\ v.s = <<>>
    \/ v.kind = "int" /\ v.i = 0

Unknown == <<"U", "n", "k", "n", "o", "w", "n">>

\* name or "Unknown"
OrUnknown(name) == IF Falsy(name) THEN StrVal(Unknown) ELSE name

\* re.sub(r"[^\w\s-]", "", str(name or "Unknown")).strip().replace(" ", "_")
safe_filename(name) ==
    StrReplace(Strip(ReSubKeep(Str(OrUnknown(name)))), <<" ">>, <<"_">>)

\* generate_separate_questions.py:
\* re.sub(r"[^\w\s-]", "", str(name)).strip().replace(" ", "_")
sq_safe_filename(name) ==
    StrReplace(Strip(ReSubKeep(
                   IF name.kind = "None" THEN <<"N", "o", "n", "e">> ELSE Str(name))),
               <<" ">>, <<"_">>)

NameChars == {"a", " ", "\t", "-", "."}

Names ==
    {NoneValue, IntVal(0), IntVal(7)} \cup
    {StrVal(s) : s \in UNION {[1..n -> NameChars] : n \in 0..MaxNameLen}}

FilenameArgs == [fn : {"safe_filename", "sq_safe_filename"}, name : Names]

InitFilename ==
    /\ pc = "ready"
    /\ args \in FilenameArgs
    /\ result = NoResult
    /\ first_call = NoCall
    /\ last_call = NoCall
    /\ ncalls = 0
    /\ between = 0
    /\ DriverIdle

\* safe_name = safe_filename(Name)
CallSafeFilename ==
    /\ pc = "ready"
    /\ args.fn = "safe_filename"
    /\ result' = Ok(safe_filename(args.name))
    /\ pc' = "done_safe_filename"
    /\ UNCHANGED <<args, first_call, last_call, ncalls, between>>
    /\ UNCHANGED <<loop_vars, compile_vars, fs_vars>>

\* Name = Name or "Unknown" ... safe_name = safe_filename(Name)
CallSafeFilenameSeparate ==
    /\ pc = "ready"
    /\ args.fn = "sq_safe_filename"
    /\ result' = Ok(sq_safe_filename(OrUnknown(args.name)))
    /\ pc' = "done_safe_filename"
    /\ UNCHANGED <<args, first_call, last_call, ncalls, between>>
    /\ UNCHANGED <<loop_vars, compile_vars, fs_vars>>

NextFilename == CallSafeFilename \/ CallSafeFilenameSeparate

SpecFilename == InitFilename /\ [][NextFilename]_vars

-----------------------------------------------------------------------------
(* Batch drivers: the main loop of each script and its compile adapter *)

\* a1: Ass-01.py, a2: the Assignment-02 script of generate_question.py,
\* sq: generate_separate_questions.py, gq: the single-file generator at the
\* head of generate_question.py (it compiles nothing and keeps one counter)
Scripts == {"a1", "a2", "sq", "gq"}

CompilingScripts == {"a1", "a2", "sq"}

START_ROW(s) ==
    CASE s = "a1" -> 2
      [] s = "a2" -> 2
      [] s = "sq" -> 35
      [] s = "gq" -> 2

\* for _ in range(2)
CompilerRuns == 2

\* for _ in range(10)
PollLimit == 10

\* splitlines()[-15:]
LogTailLines == 15

\* values of an identifier cell: empty cell, empty string, zero, an identifier
IDCells == {NoneValue, StrVal(<<>>), IntVal(0), IntVal(12345)}

\* column 1 of the sheet from the start row on; every cell below is empty
Rosters == UNION {[1..n -> IDCells] : n \in 0..MaxRows}

\* sheet.cell(row=r, column=1).value
Cell(r) ==
    IF r - START_ROW(script) + 1 \in DOMAIN roster
    THEN roster[r - START_ROW(script) + 1]
    ELSE NoneValue

\* exit statuses of pdflatex
ReturnCodes == {0, 1}

\* number of lines a compiler run writes to its standard output
StdoutLines == {2, 16}

\* "\n".join(out.splitlines()[-15:]): the lines first..last of the run's output
LogTail(out) ==
    [run |-> out.run,
     first |-> IF out.lines > LogTailLines THEN out.lines - LogTailLines + 1 ELSE 1,
     last |-> out.lines]

\* index in the roster of the record under way
Record == row - START_ROW(script) + 1

\* what one run of pdflatex leaves next to the source file
CompilerByproducts == {"aux", "log", "out"}

\* the extensions the cleanup of a script removes
CleanedExtensions(s) ==
    IF s = "sq"
    THEN {"tex", "aux", "log", "out"}
    ELSE {"aux", "log", "out", "toc", "nav", "snm", "bcf", "xml", "tex"}

\* for ext in extensions: for f in glob(directory/**/*ext): os.remove(f)
clean_directory(directory, extensions) ==
    {f \in directory : f[2] \notin extensions}

InitDriver ==
    /\ pc = "driver"
    /\ args = NoArgs
    /\ result = NoResult
    /\ first_call = NoCall
    /\ last_call = NoCall
    /\ ncalls = 0
    /\ between = 0
    /\ script \in Scripts
    /\ roster \in Rosters
    /\ row = START_ROW(script)
    /\ dpc = "read"
    /\ count_success = 0
    /\ count_fail = 0
    /\ count = 0
    /\ processed = [k \in DOMAIN roster |-> 0]
    /\ pdf_exists = FALSE
    /\ CompileIdle
    /\ files = {}
    /\ produced = {}

\* ID = sheet.cell(row=row, column=1).value; if not ID: print(...); break
ReadRow ==
    /\ dpc = "read"
    /\ script \in CompilingScripts
    /\ dpc' = IF Falsy(Cell(row)) THEN "cleanup" ELSE "render"
    /\ UNCHANGED <<script, roster, row, count_success, count_fail, count, processed>>
    /\ UNCHANGED <<harness_vars, compile_vars>>
    /\ UNCHANGED fs_vars

\* ID = sheet.cell(row=row, column=1).value; if ID is None: print(...); break
ReadRowSingleFile ==
    /\ dpc = "read"
    /\ script = "gq"
    /\ dpc' = IF Cell(row).kind = "None" THEN "footer" ELSE "render"
    /\ UNCHANGED <<script, roster, row, count_success, count_fail, count, processed>>
    /\ UNCHANGED <<harness_vars, compile_vars>>
    /\ UNCHANGED fs_vars

\* the questions of the record are generated and the template is filled
RenderRecord ==
    /\ dpc = "render"
    /\ script \in CompilingScripts
    /\ processed' = [processed EXCEPT ![row - START_ROW(script) + 1] = @ + 1]
    /\ dpc' = "write"
    /\ UNCHANGED <<script, roster, row, count_success, count_fail, count>>
    /\ UNCHANGED <<harness_vars, compile_vars>>
    /\ UNCHANGED fs_vars

\* replaced_text = replace_template_placeholders(...);
\* append_to_output_file(...); count += 1; row += 1
AppendRecord ==
    /\ dpc = "render"
    /\ script = "gq"
    /\ processed' = [processed EXCEPT ![row - START_ROW(script) + 1] = @ + 1]
    /\ count' = count + 1
    /\ row' = row + 1
    /\ dpc' = "read"
    /\ UNCHANGED <<script, roster, count_success, count_fail>>
    /\ UNCHANGED <<harness_vars, compile_vars>>
    /\ UNCHANGED fs_vars

\* WriteTex that enters compile_latex_to_pdf before the file is written
WriteTex_after_compile ==
    /\ dpc = "write"
    /\ CompileIdle
    /\ pdf_exists' \in BOOLEAN
    /\ dpc' = "compile_run"
    /\ UNCHANGED <<returncodes, stdouts, build_ok, last_stdout, polls, exists_seen,
                   printed, compile_result>>
    /\ UNCHANGED <<script, roster, row, count_success, count_fail, count, processed>>
    /\ UNCHANGED <<harness_vars, fs_vars>>

\* the .tex file is written and compile_latex_to_pdf(tex_path) is entered; a
\* PDF of the same name may be there from an earlier batch
WriteTex ==
    /\ dpc = "write"
    /\ CompileIdle
    /\ pdf_exists' \in BOOLEAN
    /\ dpc' = "compile_run"
    /\ UNCHANGED <<returncodes, stdouts, build_ok, last_stdout, polls, exists_seen,
                   printed, compile_result>>
    /\ UNCHANGED <<script, roster, row, count_success, count_fail, count, processed>>
    /\ UNCHANGED harness_vars
    /\ files' = files \cup {<<Record, "tex">>}
    /\ UNCHANGED produced

\* RunCompiler without the break: both runs are always made
RunCompiler_no_break ==
    /\ dpc = "compile_run"
    /\ script \in {"a1", "a2"}
    /\ \E rc \in ReturnCodes, n \in StdoutLines, pdf_written \in BOOLEAN :
          /\ returncodes' = Append(returncodes, rc)
          /\ stdouts' = Append(stdouts, n)
          /\ last_stdout' = Stdout(Len(returncodes) + 1, n)
          /\ pdf_exists' = pdf_written
          /\ build_ok' = (build_ok \/ rc = 0)
          /\ dpc' = IF Len(returncodes) + 1 = CompilerRuns
                    THEN "compile_poll" ELSE "compile_run"
    /\ UNCHANGED <<polls, exists_seen, printed, compile_result>>
    /\ UNCHANGED <<script, roster, row, count_success, count_fail, count, processed>>
    /\ UNCHANGED harness_vars
    /\ files' = files \cup {<<Record, ext>> : ext \in CompilerByproducts}
    /\ UNCHANGED produced

\* Ass-01.py 77-85, one pass of the loop:
\* result = subprocess.run(cmd, ...); last_stdout = result.stdout;
\* if result.returncode == 0: build_ok = True; break
RunCompiler ==
    /\ dpc = "compile_run"
    /\ script \in {"a1", "a2"}
    /\ \E rc \in ReturnCodes, n \in StdoutLines, pdf_written \in BOOLEAN :
          /\ returncodes' = Append(returncodes, rc)
          /\ stdouts' = Append(stdouts, n)
          /\ last_stdout' = Stdout(Len(returncodes) + 1, n)
          /\ pdf_exists' = pdf_written
          /\ IF rc = 0
             THEN /\ build_ok' = TRUE
                  /\ dpc' = "compile_poll"
             ELSE /\ build_ok' = build_ok
                  /\ dpc' = IF Len(returncodes) + 1 = CompilerRuns
                            THEN "compile_poll" ELSE "compile_run"
    /\ UNCHANGED <<polls, exists_seen, printed, compile_result>>
    /\ UNCHANGED <<script, roster, row, count_success, count_fail, count, processed>>
    /\ UNCHANGED harness_vars
    /\ files' = files \cup {<<Record, ext>> : ext \in CompilerByproducts}
    /\ UNCHANGED produced

\* PollPdf that looks once more than range(10) allows
PollPdf_one_more ==
    /\ dpc = "compile_poll"
    /\ script \in {"a1", "a2"}
    /\ pdf_exists' \in {pdf_exists, TRUE}
    /\ polls' = polls + 1
    /\ IF pdf_exists'
       THEN /\ build_ok' = TRUE
            /\ exists_seen' = TRUE
            /\ dpc' = "compile_report"
       ELSE /\ build_ok' = build_ok
            /\ exists_seen' = exists_seen
            /\ dpc' = IF polls = PollLimit THEN "compile_report" ELSE "compile_poll"
    /\ UNCHANGED <<returncodes, stdouts, last_stdout, printed, compile_result>>
    /\ UNCHANGED <<script, roster, row, count_success, count_fail, count, processed>>
    /\ UNCHANGED <<harness_vars, fs_vars>>

\* Ass-01.py 88-92, one pass of the loop: the file may have become visible
\* since the last look;
\* if os.path.exists(pdf_path): build_ok = True; break / time.sleep(0.05)
PollPdf ==
    /\ dpc = "compile_poll"
    /\ script \in {"a1", "a2"}
    /\ pdf_exists' \in {pdf_exists, TRUE}
    /\ polls' = polls + 1
    /\ IF pdf_exists'
       THEN /\ build_ok' = TRUE
            /\ exists_seen' = TRUE
            /\ dpc' = "compile_report"
       ELSE /\ build_ok' = build_ok
            /\ exists_seen' = exists_seen
            /\ dpc' = IF polls + 1 = PollLimit THEN "compile_report" ELSE "compile_poll"
    /\ UNCHANGED <<returncodes, stdouts, last_stdout, printed, compile_result>>
    /\ UNCHANGED <<script, roster, row, count_success, count_fail, count, processed>>
    /\ UNCHANGED harness_vars
    /\ UNCHANGED fs_vars

\* Ass-01.py 94-100: if not build_ok: print the log tail; return False /
\* return True
ReportCompile ==
    /\ dpc = "compile_report"
    /\ script \in {"a1", "a2"}
    /\ IF ~build_ok
       THEN /\ printed' = Append(printed, LogTail(last_stdout))
            /\ compile_result' = FALSE
       ELSE /\ printed' = printed
            /\ compile_result' = TRUE
    /\ dpc' = "count"
    /\ UNCHANGED <<returncodes, stdouts, build_ok, last_stdout, polls, pdf_exists,
                   exists_seen>>
    /\ UNCHANGED <<script, roster, row, count_success, count_fail, count, processed>>
    /\ UNCHANGED harness_vars
    /\ UNCHANGED fs_vars

\* generate_separate_questions.py 63-75, one pass of the loop:
\* result = subprocess.run(cmd, ...);
\* if result.returncode != 0 and attempt == 1: print the log tail; break
RunCompilerSeparate ==
    /\ dpc = "compile_run"
    /\ script = "sq"
    /\ \E rc \in ReturnCodes, n \in StdoutLines, pdf_written \in BOOLEAN :
          /\ returncodes' = Append(returncodes, rc)
          /\ stdouts' = Append(stdouts, n)
          /\ pdf_exists' = pdf_written
          /\ printed' = IF rc # 0 /\ Len(returncodes) = 1
                        THEN Append(printed, LogTail(Stdout(Len(returncodes) + 1, n)))
                        ELSE printed
          /\ dpc' = IF Len(returncodes) + 1 = CompilerRuns
                    THEN "compile_poll" ELSE "compile_run"
    /\ UNCHANGED <<build_ok, last_stdout, polls, exists_seen, compile_result>>
    /\ UNCHANGED <<script, roster, row, count_success, count_fail, count, processed>>
    /\ UNCHANGED harness_vars
    /\ files' = files \cup {<<Record, ext>> : ext \in CompilerByproducts}
    /\ UNCHANGED produced

\* generate_separate_questions.py 79-86, one pass of the loop and the exit:
\* if os.path.exists(pdf_path): return True / time.sleep(0.1) ... return False
PollPdfSeparate ==
    /\ dpc = "compile_poll"
    /\ script = "sq"
    /\ pdf_exists' \in {pdf_exists, TRUE}
    /\ polls' = polls + 1
    /\ IF pdf_exists'
       THEN /\ exists_seen' = TRUE
            /\ compile_result' = TRUE
            /\ dpc' = "count"
       ELSE /\ exists_seen' = exists_seen
            /\ compile_result' = FALSE
            /\ dpc' = IF polls + 1 = PollLimit THEN "count" ELSE "compile_poll"
    /\ UNCHANGED <<returncodes, stdouts, build_ok, last_stdout, printed>>
    /\ UNCHANGED <<script, roster, row, count_success, count_fail, count, processed>>
    /\ UNCHANGED harness_vars
    /\ UNCHANGED fs_vars

\* CountResult that stops the batch at the first failed record
CountResult_stop_on_failure ==
    /\ dpc = "count"
    /\ IF compile_result
       THEN /\ count_success' = count_success + 1
            /\ count_fail' = count_fail
            /\ row' = row + 1
            /\ dpc' = "read"
       ELSE /\ count_success' = count_success
            /\ count_fail' = count_fail + 1
            /\ row' = row
            /\ dpc' = "cleanup"
    /\ returncodes' = <<>>
    /\ stdouts' = <<>>
    /\ build_ok' = FALSE
    /\ last_stdout' = NoStdout
    /\ polls' = 0
    /\ exists_seen' = FALSE
    /\ printed' = <<>>
    /\ compile_result' = FALSE
    /\ UNCHANGED <<script, roster, count, processed, pdf_exists>>
    /\ UNCHANGED harness_vars
    /\ files' = IF pdf_exists THEN files \cup {<<Record, "pdf">>} ELSE files
    /\ produced' = IF pdf_exists THEN produced \cup {Record} ELSE produced

\* if compile_latex_to_pdf(tex_path): count_success += 1
\* else: count_fail += 1
\* row += 1
\* (the locals of the finished call are gone)
CountResult ==
    /\ dpc = "count"
    /\ IF compile_result
       THEN /\ count_success' = count_success + 1
            /\ count_fail' = count_fail
       ELSE /\ count_success' = count_success
            /\ count_fail' = count_fail + 1
    /\ row' = row + 1
    /\ dpc' = "read"
    /\ returncodes' = <<>>
    /\ stdouts' = <<>>
    /\ build_ok' = FALSE
    /\ last_stdout' = NoStdout
    /\ polls' = 0
    /\ exists_seen' = FALSE
    /\ printed' = <<>>
    /\ compile_result' = FALSE
    /\ UNCHANGED <<script, roster, count, processed, pdf_exists>>
    /\ UNCHANGED harness_vars
    /\ files' = IF pdf_exists THEN files \cup {<<Record, "pdf">>} ELSE files
    /\ produced' = IF pdf_exists THEN produced \cup {Record} ELSE produced

\* subprocess.run(...) raises (pdflatex is not on the path, or its output is
\* not text in the locale's encoding): nothing in the script catches it, so
\* the interpreter leaves the loop and the script without reaching the cleanup
RunCompilerRaises ==
    /\ dpc = "compile_run"
    /\ script \in CompilingScripts
    /\ dpc' = "crashed"
    /\ UNCHANGED <<script, roster, row, count_success, count_fail, count, processed>>
    /\ UNCHANGED <<harness_vars, compile_vars, fs_vars>>

\* the cleanup after the loop:
\* clean_directory(output_dir, [".aux", ".log", ..., ".tex"]) /
\* delete_files_by_extension(output_dir, [".tex", ".aux", ".log", ".out"])
Cleanup ==
    /\ dpc = "cleanup"
    /\ dpc' = "done"
    /\ files' = clean_directory(files, CleanedExtensions(script))
    /\ UNCHANGED produced
    /\ UNCHANGED <<script, roster, row, count_success, count_fail, count, processed>>
    /\ UNCHANGED <<harness_vars, compile_vars>>

\* append_to_output_file(latex_footer)
WriteFooter ==
    /\ dpc = "footer"
    /\ dpc' = "done"
    /\ UNCHANGED <<script, roster, row, count_success, count_fail, count, processed>>
    /\ UNCHANGED <<harness_vars, compile_vars>>
    /\ UNCHANGED fs_vars

NextDriver ==
    \/ ReadRow
    \/ ReadRowSingleFile
    \/ RenderRecord
    \/ AppendRecord
    \/ WriteTex
    \/ RunCompiler
    \/ PollPdf
    \/ ReportCompile
    \/ RunCompilerSeparate
    \/ PollPdfSeparate
    \/ CountResult
    \/ RunCompilerRaises
    \/ Cleanup
    \/ WriteFooter

SpecDriver == InitDriver /\ [][NextDriver]_vars

\* the steps of a run in which every compiler invocation returns
NextDriverReturning ==
    \/ ReadRow
    \/ ReadRowSingleFile
    \/ RenderRecord
    \/ AppendRecord
    \/ WriteTex
    \/ RunCompiler
    \/ PollPdf
    \/ ReportCompile
    \/ RunCompilerSeparate
    \/ PollPdfSeparate
    \/ CountResult
    \/ Cleanup
    \/ WriteFooter

\* a script is one thread of the interpreter: as long as it has a next
\* statement and the compiler invocations return, it executes it
SpecDriverReturning ==
    InitDriver /\ [][NextDriverReturning]_vars /\ WF_vars(NextDriverReturning)

-----------------------------------------------------------------------------
(* Derived display values: get_graphing_question_equality of                *)
(* generate_separate_questions.py, which evaluates 2a+b with eval           *)

\* arr of get_graphing_question_equality (generate_separate_questions.py)
sq_get_graphing_question_equality_arr ==
    <<<<"\\", "l", "e", "f", "t", "|", "\\", "f", "r", "a", "c", "{", "z", "+", "a", "i", "}", "{", "z", "-", "a", "i", "}", "\\", "r", "i", "g", "h", "t", "|", "=", "b">>,
      <<"|", "z", "+", "a", "|", "+", "|", "z", "-", "a", "|", "=", "2", "a", "+", "b">>,
      <<"|", "z", "+", "a", "i", "|", "+", "|", "z", "-", "a", "i", "|", "=", "2", "a", "+", "b">>,
      <<"|", "z", "-", "a", "|", "-", "|", "z", "+", "a", "|", "=", "2", "a", "-", "b">>,
      <<"|", "z", "-", "a", "i", "|", "-", "|", "z", "+", "a", "i", "|", "=", "2", "a", "-", "b">>>>

\* [A-Za-z]
Letters ==
    {"A","B","C","D","E","F","G","H","I","J","K","L","M","N","O","P","Q","R","S","T",
     "U","V","W","X","Y","Z","a","b","c","d","e","f","g","h","i","j","k","l","m","n",
     "o","p","q","r","s","t","u","v","w","x","y","z"}

\* re.findall(r'=(?:2a[+-]b)', s): the matches from left to right
RECURSIVE FindAllTwiceA(_)
FindAllTwiceA(s) ==
    IF Len(s) < 5 THEN <<>>
    ELSE IF SubSeq(s, 1, 5) \in {<<"=", "2", "a", "+", "b">>, <<"=", "2", "a", "-", "b">>}
    THEN <<SubSeq(s, 1, 5)>> \o FindAllTwiceA(SubSeq(s, 6, Len(s)))
    ELSE FindAllTwiceA(Tail(s))

\* re.sub(r'(?<![A-Za-z])x(?![A-Za-z])', rep, s) for a letter x: the
\* occurrences of x with no letter next to them, from position k on
RECURSIVE ReSubStandalone(_, _, _, _)
ReSubStandalone(s, x, rep, k) ==
    IF k > Len(s) THEN <<>>
    ELSE (IF /\ s[k] = x
             /\ (k = 1 \/ s[k - 1] \notin Letters)
             /\ (k = Len(s) \/ s[k + 1] \notin Letters)
          THEN rep ELSE <<s[k]>>)
         \o ReSubStandalone(s, x, rep, k + 1)

\* float(s) on the decimal string of a natural number, as the driver passes
\* it (str of a generated integer); the value is that number
float(s) ==
    IF s # <<>> /\ \A k \in 1..Len(s) : IsDigit(s[k], 10)
    THEN Ok(DigitsValue(s, 10))
    ELSE Raise("ValueError")

\* str(x) of a float whose value is the natural number v
FloatStr(v) == Decimal(v) \o <<".", "0">>

\* a numeric literal: digits, or digits followed by ".0"
Literal(s) ==
    IF Len(s) > 2 /\ SubSeq(s, Len(s) - 1, Len(s)) = <<".", "0">>
    THEN float(SubSeq(s, 1, Len(s) - 2))
    ELSE float(s)

\* position of the last element of s that lies in cs, 0 if there is none
LastIn(s, cs) ==
    IF \E k \in 1..Len(s) : s[k] \in cs
    THEN CHOOSE k \in 1..Len(s) : s[k] \in cs /\ \A j \in (k + 1)..Len(s) : s[j] \notin cs
    ELSE 0

\* eval of a product of literals
RECURSIVE EvalTerm(_)
EvalTerm(s) ==
    LET k == LastIn(s, {"*"})
    IN  IF k = 0 THEN Literal(s)
        ELSE LET l == EvalTerm(SubSeq(s, 1, k - 1))
                 r == Literal(SubSeq(s, k + 1, Len(s)))
             IN  IF ~l.ok THEN l ELSE IF ~r.ok THEN r ELSE Ok(l.val * r.val)

\* eval(expr) of a sum or difference of products of literals, evaluated from
\* the left; anything else is a SyntaxError here
RECURSIVE Eval(_)
Eval(s) ==
    LET k == LastIn(s, {"+", "-"})
    IN  IF k = 0 THEN EvalTerm(s)
        ELSE LET l == Eval(SubSeq(s, 1, k - 1))
                 r == EvalTerm(SubSeq(s, k + 1, Len(s)))
             IN  IF ~l.ok THEN l ELSE IF ~r.ok THEN r
                 ELSE Ok(IF s[k] = "+" THEN l.val + r.val ELSE l.val - r.val)

\* evaluate_expr whose eval adds where the expression subtracts
evaluate_expr_adding(expr, a, b) ==
    LET starred == ReplaceChain(expr, <<<<<<"2", "a">>, <<"2", "*", "a">>>>,
                                        <<<<"2", "b">>, <<"2", "*", "b">>>>>>)
        a_val == float(a)
        b_val == float(b)
    IN  IF ~a_val.ok \/ ~b_val.ok THEN starred
        ELSE LET filled == ReplaceChain(starred, <<<<<<"a">>, FloatStr(a_val.val)>>,
                                                   <<<<"b">>, FloatStr(b_val.val)>>>>)
                 val == Eval(StrReplace(filled, <<"-">>, <<"+">>))
             IN  IF val.ok THEN IntStr(val.val) ELSE filled

\* evaluate_expr: the except branch returns expr as it stands when the
\* exception is raised; the value of the expression is a float with an
\* integral value, so str(int(val)) is returned
evaluate_expr(expr, a, b) ==
    LET starred == ReplaceChain(expr, <<<<<<"2", "a">>, <<"2", "*", "a">>>>,
                                        <<<<"2", "b">>, <<"2", "*", "b">>>>>>)
        a_val == float(a)
        b_val == float(b)
    IN  IF ~a_val.ok \/ ~b_val.ok THEN starred
        ELSE LET filled == ReplaceChain(starred, <<<<<<"a">>, FloatStr(a_val.val)>>,
                                                   <<<<"b">>, FloatStr(b_val.val)>>>>)
                 val == Eval(filled)
             IN  IF val.ok THEN IntStr(val.val) ELSE filled

\* for m in matches: s = s.replace(m, f'={evaluate_expr(m[1:], a, b)}')
RECURSIVE ReplaceMatches(_, _, _, _)
ReplaceMatches(s, matches, a, b) ==
    IF matches = <<>> THEN s
    ELSE ReplaceMatches(
             StrReplace(s, Head(matches), <<"=">> \o evaluate_expr(Tail(Head(matches)), a, b)),
             Tail(matches), a, b)

\* get_graphing_question_equality(n, a, b) of generate_separate_questions.py;
\* a and b are strings
sq_get_graphing_question_equality(n, a, b) ==
    LET t == PyIndex(sq_get_graphing_question_equality_arr, n - 1)
    IN  IF ~t.ok THEN t
        ELSE LET s1 == ReplaceChain(t.val,
                           <<<<<<"a", "i">>, a \o <<"i">>>>,
                             <<<<"+", "a", "i">>, <<"+">> \o a \o <<"i">>>>,
                             <<<<"-", "a", "i">>, <<"-">> \o a \o <<"i">>>>>>)
                 s2 == ReplaceMatches(s1, FindAllTwiceA(s1), a, b)
                 s3 == ReplaceChain(s2,
                           <<<<<<"{", "a", "}">>, <<"{">> \o a \o <<"}">>>>,
                             <<<<"{", "b", "}">>, <<"{">> \o b \o <<"}">>>>>>)
                 s4 == ReSubStandalone(s3, "a", a, 1)
             IN  Ok(ReSubStandalone(s4, "b", b, 1))

\* the ranges the drivers draw a and b of the graphing questions from, and the
\* parameters of Q14 (Ass-01.py 469-470, 542-547); the parameters of Q14 that
\* take no part in a derived value are drawn from the ends of their range
GraphingA == 4..9

GraphingB == 1..7

HarmonicValues == 2..9

HarmonicEnds == {2, 9}

DerivedArgs ==
    [fn : {"a1.Q2_get_graphing_question_equality", "sq.get_graphing_question_equality"},
     n : 1..CatalogSize["a1.Q2_get_graphing_question_equality"],
     p : {<<a, b>> : a \in GraphingA, b \in GraphingB}]
    \cup
    [fn : {"a1.Q3_get_graphing_question_inequality"},
     n : 1..CatalogSize["a1.Q3_get_graphing_question_inequality"],
     p : {<<a, b>> : a \in GraphingA, b \in GraphingB}]
    \cup
    [fn : {"a1.Q14_get_harmonic"},
     n : 1..CatalogSize["a1.Q14_get_harmonic"],
     p : {<<a, b, c, d, e, f>> : a \in HarmonicEnds, b \in HarmonicEnds,
             c \in HarmonicValues, d \in HarmonicEnds, e \in HarmonicValues, f \in HarmonicEnds}]

InitDerived ==
    /\ pc = "ready"
    /\ args \in DerivedArgs
    /\ result = NoResult
    /\ first_call = NoCall
    /\ last_call = NoCall
    /\ ncalls = 0
    /\ between = 0
    /\ DriverIdle

\* the question function is called as the driver calls it (the driver of
\* generate_separate_questions.py passes str(a), str(b))
CallDerived ==
    /\ pc = "ready"
    /\ args \in DerivedArgs
    /\ result' = IF args.fn = "sq.get_graphing_question_equality"
                 THEN sq_get_graphing_question_equality(
                          args.n, IntStr(args.p[1]), IntStr(args.p[2]))
                 ELSE question(args.fn, args.n, args.p)
    /\ pc' = "done_derived"
    /\ UNCHANGED <<args, first_call, last_call, ncalls, between>>
    /\ UNCHANGED <<loop_vars, compile_vars, fs_vars>>

NextDerived == CallDerived

SpecDerived == InitDerived /\ [][NextDerived]_vars

-----------------------------------------------------------------------------
(* One record: the generator calls a driver makes and the question-bank     *)
(* calls it passes their values to                                          *)

\* one generator call: the question it belongs to, the function its value is
\* passed to, the position of the argument there and what the argument
\* decides, then the variation label and the n, a, b of the call
Arg(q, family, slot, role, variation, n, a, b) ==
    [question |-> q, family |-> family, slot |-> slot, role |-> role,
     variation |-> variation, n |-> n, a |-> a, b |-> b]

\* Ass-01.py 461-554: the generator calls of one record, in the order they are made
Ass01_calls ==
    <<Arg("Q1", "a1.Q1_get_nth_root", 1, "exponent", "Q1_n", 1, 5, 7),
      Arg("Q1", "a1.Q1_get_nth_root", 2, "radius", "Q1_r", 1, 2, 3),
      Arg("Q1", "a1.Q1_get_nth_root", 3, "angle", "Q1_arg", 1, 0, 15),
      Arg("Q2", "a1.Q2_get_graphing_question_equality", 1, "selector", "Q2_n", 1, 1, 5),
      Arg("Q2", "a1.Q2_get_graphing_question_equality", 2, "param", "Q2_a", 1, 4, 9),
      Arg("Q2", "a1.Q2_get_graphing_question_equality", 3, "param", "Q2_b", 1, 1, 7),
      Arg("Q3", "a1.Q3_get_graphing_question_inequality", 1, "selector", "Q3_n", 1, 1, 20),
      Arg("Q3", "a1.Q3_get_graphing_question_inequality", 2, "param", "Q3_a", 1, 4, 9),
      Arg("Q3", "a1.Q3_get_graphing_question_inequality", 3, "param", "Q3_b", 1, 1, 7),
      Arg("Q4", "a1.Q4_get_solve_trig", 1, "param", "Q4_a", 1, 2, 9),
      Arg("Q4", "a1.Q4_get_solve_trig", 2, "radius", "Q4_r", 1, 2, 9),
      Arg("Q4", "a1.Q4_get_solve_trig", 3, "angle", "Q4_arg", 1, 0, 15),
      Arg("Q5", "a1.Q5_get_prove_trig_hyp", 1, "selector", "Q5_n", 1, 1, 12),
      Arg("Q6", "a1.Q6_get_solve_trig_hyp", 1, "selector", "Q6_n", 1, 1, 24),
      Arg("Q6", "a1.Q6_get_solve_trig_hyp", 2, "param", "Q6_a", 1, 2, 9),
      Arg("Q6", "a1.Q6_get_solve_trig_hyp", 3, "param", "Q6_b", 1, 2, 9),
      Arg("Q7", "a1.Q7_get_limit_not_exists", 1, "selector", "Q7_n", 1, 1, 2),
      Arg("Q8", "a1.Q8_get_limit_LHopital", 1, "selector", "Q8_n", 1, 1, 2),
      Arg("Q8", "a1.Q8_get_limit_LHopital", 2, "param", "Q8_a", 1, 2, 9),
      Arg("Q8", "a1.Q8_get_limit_LHopital", 3, "param", "Q8_b", 1, 2, 9),
      Arg("Q9", "a1.Q9_get_Continuity", 1, "param", "Q9_a", 1, 2, 9),
      Arg("Q9", "a1.Q9_get_Continuity", 2, "param", "Q9_b", 1, 2, 9),
      Arg("Q10", "a1.Q10_get_derivative", 1, "selector", "Q10_n", 1, 1, 3),
      Arg("Q10", "a1.Q10_get_derivative", 2, "param", "Q10_a", 1, 2, 9),
      Arg("Q10", "a1.Q10_get_derivative", 3, "param", "Q10_b", 1, 2, 9),
      Arg("Q10", "a1.Q10_get_derivative", 4, "param", "Q10_c", 1, 2, 9),
      Arg("Q10", "a1.Q10_get_derivative", 5, "param", "Q10_d", 1, 2, 9),
      Arg("Q11", "a1.Q11_get_derivative", 1, "selector", "Q11_n", 1, 1, 2),
      Arg("Q11", "a1.Q11_get_derivative", 2, "param", "Q11_a", 1, 2, 9),
      Arg("Q11", "a1.Q11_get_derivative", 3, "param", "Q11_b", 1, 2, 9),
      Arg("Q11", "a1.Q11_get_derivative", 4, "param", "Q11_c", 1, 2, 9),
      Arg("Q12", "a1.Q12_get_analytic", 1, "selector", "Q12_n", 1, 1, 2),
      Arg("Q12", "a1.Q12_get_analytic", 2, "param", "Q12_a", 1, 2, 9),
      Arg("Q12", "a1.Q12_get_analytic", 3, "param", "Q12_b", 1, 2, 9),
      Arg("Q12", "a1.Q12_get_analytic", 4, "param", "Q12_c", 1, 2, 9),
      Arg("Q12", "a1.Q12_get_analytic", 5, "param", "Q12_d", 1, 2, 9),
      Arg("Q13", "a1.Q13_get_analytic", 1, "selector", "Q13_n", 1, 1, 2),
      Arg("Q13", "a1.Q13_get_analytic", 2, "param", "Q13_a", 1, 2, 9),
      Arg("Q13", "a1.Q13_get_analytic", 3, "param", "Q13_b", 1, 2, 9),
      Arg("Q13", "a1.Q13_get_analytic", 4, "param", "Q13_c", 1, 2, 9),
      Arg("Q14", "a1.Q14_get_harmonic", 1, "selector", "Q14_n", 1, 1, 4),
      Arg("Q14", "a1.Q14_get_harmonic", 2, "param", "Q14_a", 1, 2, 9),
      Arg("Q14", "a1.Q14_get_harmonic", 3, "param", "Q14_b", 1, 2, 9),
      Arg("Q14", "a1.Q14_get_harmonic", 4, "param", "Q14_c", 1, 2, 9),
      Arg("Q14", "a1.Q14_get_harmonic", 5, "param", "Q14_d", 1, 2, 9),
      Arg("Q14", "a1.Q14_get_harmonic", 6, "param", "Q14_e", 1, 2, 9),
      Arg("Q14", "a1.Q14_get_harmonic", 7, "param", "Q14_f", 1, 2, 9),
      Arg("Q15", "a1.Q15_get_harmonic", 1, "selector", "Q15_n", 1, 1, 2),
      Arg("Q15", "a1.Q15_get_harmonic", 2, "param", "Q15_a", 1, 2, 9),
      Arg("Q15", "a1.Q15_get_harmonic", 3, "param", "Q15_b", 1, 2, 9)>>

\* generate_question.py 438-480: the generator calls of one record, in the order they are made
Assignment02_calls ==
    <<Arg("Q1", "a2.Q1_Formula_Proof", 1, "selector", "Q1_n", 1, 1, 4),
      Arg("Q2", "a2.Q2_Piecewise", 1, "selector", "Q2_n", 1, 1, 2),
      Arg("Q2", "a2.Q2_Piecewise", 2, "param", "Q2_a", 1, 2, 5),
      Arg("Q2", "a2.Q2_Piecewise", 3, "param", "Q2_b", 1, 2, 5),
      Arg("Q3", "a2.Q3_First_Translation", 1, "selector", "Q3_n", 1, 1, 4),
      Arg("Q3", "a2.Q3_First_Translation", 2, "param", "Q3_a", 1, 2, 4),
      Arg("Q3", "a2.Q3_First_Translation", 3, "param", "Q3_b", 1, 2, 5),
      Arg("Q3", "a2.Q3_First_Translation", 4, "param", "Q3_a", 1, 2, 5),
      Arg("Q5", "a2.Q5_Inverse_Partial", 1, "selector", "Q5_n", 1, 1, 2),
      Arg("Q6", "a2.Q6_ODE_First_Order", 1, "param", "Q6_a", 1, 2, 5),
      Arg("Q6", "a2.Q6_ODE_First_Order", 2, "param", "Q6_b", 1, 2, 5),
      Arg("Q7", "a2.Q7_ODE_Third_Order", 1, "selector", "Q7_n", 1, 1, 2),
      Arg("Q8", "a2.Q8_ODE_Second_Order", 1, "selector", "Q8_n", 1, 1, 2),
      Arg("Q9", "a2.Q9_ODE_Second_t_trig", 1, "selector", "Q9_n", 1, 1, 2),
      Arg("Q10", "a2.Q10_ODE_System", 1, "selector", "Q10_n", 1, 1, 3)>>

\* generate_separate_questions.py 406-423: the generator calls of one record, in the order they are made
separate_questions_calls ==
    <<Arg("Q1_n", "sq.Q1_n", 1, "param", "Q1_n", 1, 5, 7),
      Arg("Q1_z", "sq.complex_in_latex", 1, "radius", "Q1_r", 1, 2, 3),
      Arg("Q1_z", "sq.complex_in_latex", 1, "exponent", "Q1_n", 1, 5, 7),
      Arg("Q1_z", "sq.complex_in_latex", 2, "angle", "Q1_arg", 1, 0, 15),
      Arg("graph_equation", "sq.get_graphing_question_equality", 1, "selector", "Q2_n", 1, 1, 5),
      Arg("graph_equation", "sq.get_graphing_question_equality", 2, "param", "Q2_a", 1, 4, 9),
      Arg("graph_equation", "sq.get_graphing_question_equality", 3, "param", "Q2_b", 1, 1, 7),
      Arg("graph_inequality", "sq.get_graphing_question_inequality", 1, "selector", "Q3_n", 1, 1, 20),
      Arg("graph_inequality", "sq.get_graphing_question_inequality", 2, "param", "Q3_a", 1, 4, 9),
      Arg("graph_inequality", "sq.get_graphing_question_inequality", 3, "param", "Q3_b", 1, 1, 7),
      Arg("Q4_a", "sq.Q4_a", 1, "param", "Q4_a", 1, 2, 9),
      Arg("Q4_z", "sq.complex_in_latex", 1, "radius", "Q4_r", 1, 2, 9),
      Arg("Q4_z", "sq.complex_in_latex", 2, "angle", "Q4_arg", 1, 0, 15),
      Arg("Q5_expression", "sq.get_prove_trig_hyp", 1, "selector", "Q5_n", 1, 1, 12),
      Arg("Q6_expression", "sq.get_solve_trig_hyp", 1, "selector", "Q6_n", 1, 1, 24),
      Arg("Q6_expression", "sq.get_solve_trig_hyp", 2, "param", "Q6_a", 1, 2, 9),
      Arg("Q6_expression", "sq.get_solve_trig_hyp", 3, "param", "Q6_b", 1, 2, 9),
      Arg("Q10", "sq.Q10_get_derivative", 1, "selector", "Q10_n", 1, 1, 2),
      Arg("Q10", "sq.Q10_get_derivative", 2, "param", "Q10_a", 1, 2, 9),
      Arg("Q10", "sq.Q10_get_derivative", 3, "param", "Q10_b", 1, 2, 9),
      Arg("Q10", "sq.Q10_get_derivative", 4, "param", "Q10_c", 1, 2, 9),
      Arg("Q11", "sq.Q11_get_derivative", 1, "selector", "Q11_n", 1, 1, 3),
      Arg("Q11", "sq.Q11_get_derivative", 2, "param", "Q11_a", 1, 2, 9),
      Arg("Q11", "sq.Q11_get_derivative", 3, "param", "Q11_b", 1, 2, 9),
      Arg("Q11", "sq.Q11_get_derivative", 4, "param", "Q11_c", 1, 2, 9),
      Arg("Q11", "sq.Q11_get_derivative", 5, "param", "Q11_d", 1, 2, 9)>>

DriverCalls(s) ==
    CASE s = "a1" -> Ass01_calls
      [] s = "a2" -> Assignment02_calls
      [] s = "sq" -> separate_questions_calls

\* the two leading digits of the digest of an (identifier, label) seed
Chunks == {<<Base32Digits[c], Base32Digits[d]>> : c, d \in 1..16}

\* a digest that starts with the chunk (a call with n = 1 reads no more)
Digest(chunk) == chunk \o [k \in 1..30 |-> "0"]

\* generate_integers_range(ID, variation, n, a, b)[0] /
\* generate_integer(ID, variation, a, b), on the digest h of the seed
generated_value(s, h, n, a, b) ==
    IF s = "a2" THEN MapChunk(h, 0, a, b)
    ELSE LET list == Comprehension(h, n, a, b)
         IN  IF list.ok THEN PyIndex(list.val, 0) ELSE list

\* the roles whose value decides whether the question-bank call raises; the
\* values that only fill a placeholder are passed on and not kept
DecisiveRoles == {"selector", "angle", "radius", "exponent"}

RECURSIVE Power(_, _)
Power(x, k) == IF k = 0 THEN 1 ELSE x * Power(x, k - 1)

\* the value passed in a role, or the default where the call has no such
\* argument
Passed(values, role, default) ==
    IF \E k \in 1..Len(values) : values[k].role = role
    THEN values[CHOOSE k \in 1..Len(values) : values[k].role = role].val
    ELSE default

\* number of generator calls that feed the question q of script s
ArgumentCount(s, q) ==
    Cardinality({k \in 1..Len(DriverCalls(s)) : DriverCalls(s)[k].question = q})

\* the call of the question-bank function with the collected arguments:
\* s = arr[n - 1] where the function has a catalog,
\* complex_in_latex(r_val ** n, theta_index) where it takes an angle
question_call(a) ==
    IF a.family \in Families
    THEN select_variant(a.family, Passed(a.values, "selector", 0))
    ELSE IF \E k \in 1..Len(a.values) : a.values[k].role = "angle"
    THEN complex_in_latex(
             Power(Passed(a.values, "radius", 1), Passed(a.values, "exponent", 1)),
             Passed(a.values, "angle", 0))
    ELSE Ok(<<>>)

\* all arguments of the question under way have been generated
ArgumentsComplete ==
    /\ args # NoArgs
    /\ Len(args.labels) = ArgumentCount(script, args.question)

InitRecord ==
    /\ pc = "record"
    /\ args = NoArgs
    /\ result = NoResult
    /\ first_call = NoCall
    /\ last_call = NoCall
    /\ ncalls = 0
    /\ between = 0
    /\ script \in CompilingScripts
    /\ roster = <<>>
    /\ row = 0
    /\ dpc = "generate"
    /\ count_success = 0
    /\ count_fail = 0
    /\ count = 0
    /\ processed = <<>>
    /\ pdf_exists = FALSE
    /\ CompileIdle
    /\ files = {}
    /\ produced = {}

\* the next generator call of the record, for some identifier: its value is
\* one more argument of the question under way
GenerateArgument ==
    /\ pc = "record"
    /\ ncalls < Len(DriverCalls(script))
    /\ args = NoArgs \/ result # NoResult \/ ~ArgumentsComplete
    /\ \E chunk \in Chunks :
          LET c == DriverCalls(script)[ncalls + 1]
              v == generated_value(script, Digest(chunk), c.n, c.a, c.b)
              begun == IF args # NoArgs /\ result = NoResult
                       THEN args
                       ELSE [fn |-> "question_call", question |-> c.question,
                             family |-> c.family, labels |-> <<>>, values |-> <<>>]
          IN  /\ last_call' = [args |-> [fn |-> "generator", variation |-> c.variation,
                                         n |-> c.n, a |-> c.a, b |-> c.b],
                               result |-> v]
              /\ args' = [begun EXCEPT
                            !.labels = Append(@, c.variation),
                            !.values = IF v.ok /\ c.role \in DecisiveRoles
                                       THEN Append(@, [role |-> c.role, val |-> v.val])
                                       ELSE @]
              /\ pc' = IF v.ok THEN "record" ELSE "raised"
    /\ ncalls' = ncalls + 1
    /\ result' = NoResult
    /\ UNCHANGED <<first_call, between>>
    /\ UNCHANGED <<loop_vars, compile_vars, fs_vars>>

\* the question-bank function is called with the arguments generated for it
CallQuestionFunction ==
    /\ pc = "record"
    /\ result = NoResult
    /\ ArgumentsComplete
    /\ result' = question_call(args)
    /\ pc' = IF ~result'.ok THEN "raised"
             ELSE IF ncalls = Len(DriverCalls(script)) THEN "generated"
             ELSE "record"
    /\ UNCHANGED <<args, first_call, last_call, ncalls, between>>
    /\ UNCHANGED <<loop_vars, compile_vars, fs_vars>>

NextRecord == GenerateArgument \/ CallQuestionFunction

SpecRecord == InitRecord /\ [][NextRecord]_vars

-----------------------------------------------------------------------------
(* Properties of the generator *)

HexDigits == {Base32Digits[k] : k \in 1..16}

\* value of a hexadecimal digit, by enumeration
HexValue(c) ==
    CASE c = "0" -> 0 [] c = "1" -> 1 [] c = "2" -> 2 [] c = "3" -> 3
      [] c = "4" -> 4 [] c = "5" -> 5 [] c = "6" -> 6 [] c = "7" -> 7
      [] c = "8" -> 8 [] c = "9" -> 9 [] c = "a" -> 10 [] c = "b" -> 11
      [] c = "c" -> 12 [] c = "d" -> 13 [] c = "e" -> 14 [] c = "f" -> 15

\* number of 2-character chunks the digest of the call under way provides
ChunksOfDigest == Len(md5_hexdigest(args.ID, args.variation)) \div 2

C2_ElementsInRange ==
    /\ (pc = "done_generate_integers_range" /\ args.a <= args.b /\ result.ok)
           => \A k \in 1..Len(result.val) :
                  args.a <= result.val[k] /\ result.val[k] <= args.b
    /\ (pc = "done_generate_integer" /\ args.a <= args.b)
           => /\ result.ok
              /\ args.a <= result.val /\ result.val <= args.b
              /\ \A d1 \in HexDigits, d2 \in HexDigits :
                     LET e == MapChunk(<<d1, d2>>, 0, args.a, args.b)
                     IN  e.ok /\ args.a <= e.val /\ e.val <= args.b

C2_Witness ==
    /\ pc = "done_generate_integers_range"
    /\ args.a < args.b
    /\ args.n = 16
    /\ result.ok
    /\ \E k \in 1..Len(result.val) : result.val[k] = args.a
    /\ \E k \in 1..Len(result.val) : result.val[k] = args.b

\* C3: with a <= b and n <= 16 the list has exactly n elements, element i
\* (from 0) being ((32*d1 + d2) mod (b - a + 1)) + a for the values d1, d2 of
\* hex digits 2i and 2i+1 of the digest; no 2-digit hex chunk fails to parse.
C3_ElementFormula ==
    /\ (pc = "done_generate_integers_range" /\ args.a <= args.b /\ args.n <= ChunksOfDigest)
           => LET h == MD5Hex[args.ID \o args.variation]
              IN  /\ result.ok
                  /\ Len(result.val) = args.n
                  /\ \A i \in 0..(args.n - 1) :
                         result.val[i + 1] =
                             ((32 * HexValue(h[2 * i + 1]) + HexValue(h[2 * i + 2]))
                                 % (args.b - args.a + 1)) + args.a
    /\ (pc = "done_generate_integer" /\ args.n = 0 /\ args.a = args.b)
           => \A d1 \in HexDigits, d2 \in HexDigits :
                  int_radix(<<d1, d2>>, 32) = Ok(32 * HexValue(d1) + HexValue(d2))

C3_Witness ==
    /\ pc = "done_generate_integers_range"
    /\ args.n = 16
    /\ args.a < args.b
    /\ result.ok
    /\ Len(result.val) = 16

\* C4 (as claimed): whenever a > b, generate_integers_range with n >= 1 and
\* generate_integer raise an error and return nothing.
C4_FailsWhenRangeInverted ==
    /\ (pc = "done_generate_integers_range" /\ args.a > args.b /\ args.n >= 1)
           => ~result.ok
    /\ (pc = "done_generate_integer" /\ args.a > args.b) => ~result.ok

\* C5: with a <= b, a request for more chunks than the digest provides
\* (n > 16) raises an error; no shorter or padded list is returned.
C5_FailsBeyondDigest ==
    (pc = "done_generate_integers_range" /\ args.a <= args.b /\ args.n > ChunksOfDigest)
        => (~result.ok /\ result.val = <<>> /\ result.err = "ValueError")

C5_Witness ==
    /\ pc = "done_generate_integers_range"
    /\ args.a <= args.b
    /\ args.n = 17
    /\ ~result.ok

-----------------------------------------------------------------------------
(* Properties of the question bank and of the formatter *)

\* C6 (as claimed): a question-bank function given a selector n outside
\* [1, K], K the size of its catalog, raises an error and returns no template.
C6_FailsOutsideCatalog ==
    (pc = "done_question_bank"
        /\ (args.n < 1 \/ args.n > CatalogSize[args.family]))
        => ~result.ok

\* C7: complex_in_latex raises an error for every angle index outside 0..15
\* and accepts every index in 0..15, mapping it through the table to a
\* multiple of 15 degrees below 360; index 4 is 90 degrees.
C7_AngleIndexChecked ==
    pc = "done_complex_in_latex" =>
        /\ args.theta_index \notin 0..15 => (~result.ok /\ result.err = "ValueError")
        /\ args.theta_index \in 0..15 =>
               /\ result.ok
               /\ result.val.deg = angle_map[args.theta_index]
               /\ result.val.deg \in {15 * k : k \in 0..23}
        /\ args.theta_index = 4 => result.val.deg = 90

C7_Witness ==
    /\ pc = "done_complex_in_latex"
    /\ args.theta_index = 0
    /\ result.ok
    /\ result.val.deg = 0

\* C8: for every angle index in 0..15 and every modulus r the components
\* x = r*cos(theta) and y = r*sin(theta) satisfy x^2 + y^2 = r^2 exactly
\* (stated on the doubled components: (2x)^2 + (2y)^2 = 4 r^2).
C8_ModulusPreserved ==
    (pc = "done_complex_in_latex" /\ result.ok) =>
        AlgAdd(AlgMul(result.val.twice_x, result.val.twice_x),
               AlgMul(result.val.twice_y, result.val.twice_y))
            = <<4 * args.r_val * args.r_val, 0, 0, 0>>

C8_Witness ==
    /\ pc = "done_complex_in_latex"
    /\ result.ok
    /\ args.r_val = 3
    /\ args.theta_index = 6
    /\ result.val.twice_x = <<0, 0 - 3, 0, 0>>
    /\ result.val.twice_y = <<0, 3, 0, 0>>

-----------------------------------------------------------------------------
(* Properties of the renderer *)

Contains(s, sub) ==
    \E i \in 1..(Len(s) - Len(sub) + 1) : SubSeq(s, i, i + Len(sub) - 1) = sub

\* the characters that occur in the supplied keys
KeyChars(kwargs) ==
    UNION {{kwargs[j].key[i] : i \in DOMAIN kwargs[j].key} : j \in DOMAIN kwargs}

\* position of the k-th "@" of t
AtPosition(t, k) ==
    CHOOSE i \in DOMAIN t :
        t[i] = "@" /\ Cardinality({j \in 1..(i - 1) : t[j] = "@"}) = k - 1

AtCount(t) == Cardinality({i \in DOMAIN t : t[i] = "@"})

\* every "@" of t delimits a placeholder @X@ (X without "@"), and between any
\* two consecutive placeholders there is a character that occurs in no key
WellFormedTemplate(t, kwargs) ==
    /\ AtCount(t) % 2 = 0
    /\ \A k \in 1..((AtCount(t) \div 2) - 1) :
           \E i \in (AtPosition(t, 2 * k) + 1)..(AtPosition(t, 2 * k + 1) - 1) :
               t[i] \notin KeyChars(kwargs)

\* no key and no value's string form contains "@"
AtFreeKwargs(kwargs) ==
    \A j \in DOMAIN kwargs :
        /\ ~Contains(kwargs[j].key, <<"@">>)
        /\ ~Contains(Str(kwargs[j].val), <<"@">>)

NoSuppliedPlaceholder(text, kwargs) ==
    \A j \in DOMAIN kwargs : ~Contains(text, <<"@">> \o kwargs[j].key \o <<"@">>)

\* C9 (as claimed): for every template and every mapping the output of
\* replace_placeholders contains no @K@ of a supplied key K.
C9_NoSuppliedPlaceholderLeft ==
    pc = "done_replace_placeholders" => NoSuppliedPlaceholder(result.val[1], args.kwargs)

\* C9 (amended): when no key and no value's string form contains "@" and the
\* template is well formed (every "@" delimits a placeholder, consecutive
\* placeholders being separated by a character that occurs in no key), the
\* output of replace_placeholders contains no @K@ of a supplied key K.
C9_NoSuppliedPlaceholderLeftWellFormed ==
    (pc = "done_replace_placeholders"
        /\ AtFreeKwargs(args.kwargs)
        /\ WellFormedTemplate(args.template, args.kwargs))
        => NoSuppliedPlaceholder(result.val[1], args.kwargs)

C9_Witness ==
    /\ pc = "done_replace_placeholders"
    /\ AtFreeKwargs(args.kwargs)
    /\ WellFormedTemplate(args.template, args.kwargs)
    /\ Len(args.kwargs) = 2
    /\ Contains(args.template, <<"@", "A", "@">>)
    /\ AtCount(args.template) = 2
    /\ AtCount(result.val[1]) = 0

\* C10 (as claimed): rendering the output again with the same mapping gives
\* the same text, for every template and mapping.
C10_Idempotent ==
    pc = "done_replace_placeholders_again" => result.val[2] = result.val[1]

\* C10 (amended): when no key and no value's string form contains "@" and
\* the template is well formed, rendering the output again with the same
\* mapping gives the same text.
C10_IdempotentWellFormed ==
    (pc = "done_replace_placeholders_again"
        /\ AtFreeKwargs(args.kwargs)
        /\ WellFormedTemplate(args.template, args.kwargs))
        => result.val[2] = result.val[1]

C10_Witness ==
    /\ pc = "done_replace_placeholders_again"
    /\ AtFreeKwargs(args.kwargs)
    /\ WellFormedTemplate(args.template, args.kwargs)
    /\ Contains(args.template, <<"@", "A", "@">>)
    /\ result.val[1] # args.template
    /\ result.val[2] = result.val[1]

\* no supplied key is a substring of another supplied key
PairwiseNotSubstrings(kwargs) ==
    \A i, j \in DOMAIN kwargs :
        i # j => ~Contains(kwargs[j].key, kwargs[i].key)

\* C11 (as claimed): for every mapping whose keys are pairwise not substrings
\* of one another, replace_placeholders gives the same text for every order
\* in which the keys are applied.
C11_OrderIndependent ==
    (pc = "done_replace_placeholders_reordered"
        /\ PairwiseNotSubstrings(args.kwargs))
        => result.val[2] = result.val[1]

\* C11 (amended): for every mapping whose keys are pairwise not substrings of
\* one another and in which no key and no value's string form contains "@",
\* and every well-formed template, replace_placeholders gives the same text
\* for every order in which the keys are applied.
C11_OrderIndependentWellFormed ==
    (pc = "done_replace_placeholders_reordered"
        /\ PairwiseNotSubstrings(args.kwargs)
        /\ AtFreeKwargs(args.kwargs)
        /\ WellFormedTemplate(args.template, args.kwargs))
        => result.val[2] = result.val[1]

C11_Witness ==
    /\ pc = "done_replace_placeholders_reordered"
    /\ PairwiseNotSubstrings(args.kwargs)
    /\ AtFreeKwargs(args.kwargs)
    /\ WellFormedTemplate(args.template, args.kwargs)
    /\ Len(args.kwargs) = 2
    /\ args.kwargs[1].val # args.kwargs[2].val
    /\ Contains(args.template, Placeholder(args.kwargs[1].key))
    /\ result.val[1] # args.template
    /\ result.val[2] = result.val[1]
    /\ result.val[1] #
           replace_placeholders(args.template, <<args.kwargs[2]>>)

\* name of the k-th placeholder of t: the text between the (2k-1)-th and the
\* 2k-th "@"
PlaceholderName(t, k) ==
    SubSeq(t, AtPosition(t, 2 * k - 1) + 1, AtPosition(t, 2 * k) - 1)

\* the names of the placeholders of t that are no supplied key
UnmappedNames(t, kwargs) ==
    {PlaceholderName(t, k) : k \in 1..(AtCount(t) \div 2)}
        \ {kwargs[j].key : j \in DOMAIN kwargs}

UnmappedLeft(t, out, kwargs) ==
    \A X \in UnmappedNames(t, kwargs) : Contains(out, Placeholder(X))

GreetingRendered ==
    (args.kwargs = GreetingKwargs /\ args.template = GreetingTemplate
        => result.val[1] =
             <<"H", "e", "l", "l", "o", " ", "A", "l", "i", "c", "e", ",", " ",
               "I", "D", " ", "7">>)
    /\ (args.kwargs = GreetingKwargs /\ args.template = GreetingTemplateExtra
        => result.val[1] =
             <<"H", "e", "l", "l", "o", " ", "A", "l", "i", "c", "e", ",", " ",
               "I", "D", " ", "7", " ", "@", "E", "x", "t", "r", "a", "@">>)

\* C12 (as claimed): for every template and mapping replace_placeholders
\* returns a text (no error) in which every placeholder of the template whose
\* name is no supplied key still stands; "Hello @Name@, ID @ID@" with
\* Name="Alice", ID=7 gives "Hello Alice, ID 7" and @Extra@ stays.
C12_UnmappedLeft ==
    pc = "done_replace_placeholders"
        => /\ result.ok
           /\ UnmappedLeft(args.template, result.val[1], args.kwargs)
           /\ GreetingRendered

\* C12 (amended): for every well-formed template (every "@" delimits a
\* placeholder, consecutive placeholders being separated by a character that
\* occurs in no supplied key) and every mapping, replace_placeholders returns
\* a text (no error) in which every placeholder of the template whose name is
\* no supplied key still stands; "Hello @Name@, ID @ID@" with Name="Alice",
\* ID=7 gives "Hello Alice, ID 7" and @Extra@ stays.
C12_UnmappedLeftWellFormed ==
    (pc = "done_replace_placeholders"
        /\ WellFormedTemplate(args.template, args.kwargs))
        => /\ result.ok
           /\ UnmappedLeft(args.template, result.val[1], args.kwargs)
           /\ GreetingRendered

C12_Witness ==
    /\ pc = "done_replace_placeholders"
    /\ args.template = GreetingTemplateExtra
    /\ args.kwargs = GreetingKwargs
    /\ WellFormedTemplate(args.template, args.kwargs)
    /\ UnmappedNames(args.template, args.kwargs) = {<<"E", "x", "t", "r", "a">>}
    /\ Contains(result.val[1], <<"@", "E", "x", "t", "r", "a", "@">>)
    /\ ~Contains(result.val[1], <<"@", "I", "D", "@">>)

-----------------------------------------------------------------------------
(* Properties of the question texts *)

\* C13: for every question function that substitutes parameters, called with
\* a valid selector and integer parameters, the returned text contains no
\* "@": no placeholder is left unsubstituted.
C13_NoPlaceholderLeft ==
    pc = "done_question"
        => /\ result.ok
           /\ ~Contains(result.val, <<"@">>)

C13_Witness ==
    /\ pc = "done_question"
    /\ args.fn = "a1.Q14_get_harmonic"
    /\ args.n = 1
    /\ args.p[5] = 3
    /\ AtCount(Q14_get_harmonic_arr[1]) = 20
    /\ Contains(Q14_get_harmonic_arr[1], <<"@", "3", "e", "@">>)
    /\ result.ok
    /\ Contains(result.val, <<"9", "\\,x^2y \\;-\\; ">>)
    /\ ~Contains(result.val, <<"@">>)

-----------------------------------------------------------------------------
(* Properties of the file names *)

\* C14: for every name, absent ones included, the output of safe_filename
\* holds only word characters and hyphens: no whitespace is left in it.
C14_OnlyWordCharsAndHyphens ==
    pc = "done_safe_filename"
        => \A i \in DOMAIN result.val : result.val[i] \in WordChars \cup {"-"}

\* C15: safe_filename never returns the empty string, whatever the name:
\* empty, absent, or made only of characters that are removed.
C15_NeverEmpty ==
    pc = "done_safe_filename" => result.val # <<>>

-----------------------------------------------------------------------------
(* Properties of the batch drivers *)

\* an identifier cell that is empty (the empty string) or absent (no value)
EmptyOrAbsent(v) == v.kind = "None" \/ (v.kind = "str" /\ v.s = <<>>)

\* index of the first roster row whose identifier is empty or absent
FirstEmptyRow ==
    IF \E k \in DOMAIN roster : EmptyOrAbsent(roster[k])
    THEN CHOOSE k \in DOMAIN roster :
             /\ EmptyOrAbsent(roster[k])
             /\ \A j \in 1..(k - 1) : ~EmptyOrAbsent(roster[j])
    ELSE Len(roster) + 1

\* C16: when a batch driver has finished, every row before the first row
\* whose identifier is empty or absent has been processed exactly once, and
\* that row and every later row have not been processed.
C16_StopsAtFirstEmptyRow ==
    dpc = "done"
        => \A k \in DOMAIN roster :
               processed[k] = IF k < FirstEmptyRow THEN 1 ELSE 0

\* C17: in every driver, compile_latex_to_pdf returns True exactly when some
\* compiler run exited with status 0 or the PDF was found at one of at most
\* ten looks.
C17_TrueIffExitZeroOrPdfSeen ==
    dpc = "count"
        => /\ polls <= PollLimit
           /\ compile_result <=>
                 ((\E k \in DOMAIN returncodes : returncodes[k] = 0) \/ exists_seen)

\* C18: in every driver, when compile_latex_to_pdf returns False the last (at
\* most 15) lines of the output of the last compiler run have been printed.
C18_LogTailPrintedOnFailure ==
    (dpc = "count" /\ ~compile_result)
        => \E i \in DOMAIN printed :
               printed[i] = LogTail(Stdout(Len(returncodes), stdouts[Len(returncodes)]))

\* C19: when compile_latex_to_pdf has returned False for a record, the driver
\* adds exactly one to count_fail, leaves count_success as it is, and goes on
\* with the next roster row instead of stopping.
C19_FailureCountedAndSkipped ==
    [][(dpc = "count" /\ ~compile_result)
          => /\ count_fail' = count_fail + 1
             /\ count_success' = count_success
             /\ row' = row + 1
             /\ dpc' = "read"]_vars

C19_Witness ==
    /\ dpc = "render"
    /\ script \in CompilingScripts
    /\ row = START_ROW(script) + 1
    /\ count_fail = 1
    /\ count_success = 0
    /\ processed[1] = 1

-----------------------------------------------------------------------------
(* Properties of the output directory *)

\* the rendered source and what the compiler leaves next to it
Intermediates == {"tex", "aux", "log", "out"}

\* the output directory holds no intermediate file and every PDF that was
\* produced
DirectoryClean ==
    /\ \A f \in files : f[2] \notin Intermediates
    /\ \A k \in produced : <<k, "pdf">> \in files

\* the run of a compiling script that ended after the cleanup leaves the
\* directory clean
RemovedAfterCleanup == (script \in CompilingScripts /\ dpc = "done") => DirectoryClean

\* C21: however a batch run of a compiling script ends, after the cleanup or
\* by an exception that leaves the loop, the output directory then holds no
\* .tex, .aux, .log or .out file and every PDF that was produced is still there
C21_IntermediatesRemoved ==
    (script \in CompilingScripts /\ dpc \in {"done", "crashed"}) => DirectoryClean

-----------------------------------------------------------------------------
(* Properties of one record's generation *)

\* C22: no call a driver makes for a record raises: every generator call has
\* a <= b and n within the 16 chunks of the digest and returns a value, every
\* angle index passed on lies in 0..15, every variant selector passed on lies
\* in 1..K for the catalog of the function it goes to, and no question-bank
\* call raises
C22_NoGenerationError ==
    /\ pc # "raised"
    /\ last_call # NoCall =>
          /\ last_call.args.a <= last_call.args.b
          /\ last_call.args.n <= Len(Digest(<<"0", "0">>)) \div 2
          /\ last_call.result.ok
    /\ args # NoArgs =>
          \A k \in 1..Len(args.values) :
             /\ args.values[k].role = "angle" => args.values[k].val \in DOMAIN angle_map
             /\ args.values[k].role = "selector" =>
                   args.values[k].val \in 1..CatalogSize[args.family]
    /\ result # NoResult => result.ok

\* the last template of the largest catalog has been selected
C22_Witness ==
    /\ pc = "record"
    /\ args # NoArgs
    /\ args.family = "a1.Q6_get_solve_trig_hyp"
    /\ Passed(args.values, "selector", 0) = CatalogSize[args.family]
    /\ result # NoResult
    /\ result.ok


\* C27: the arguments of one question-bank call are generated from pairwise
\* different variation labels
C27_OwnLabelPerArgument ==
    args # NoArgs =>
       \A i, j \in 1..Len(args.labels) : i # j => args.labels[i] # args.labels[j]

\* the values the next generator call can return, over all digests
Attainable ==
    LET c == DriverCalls(script)[ncalls + 1]
    IN  {generated_value(script, Digest(chunk), c.n, c.a, c.b).val : chunk \in Chunks}

\* C28: where the driver is about to draw the variant selector of a question
\* function, the values the call can return over all digests are exactly the
\* positions 1..K of the function's catalog
C28_EveryVariantSelectable ==
    (/\ pc = "record"
     /\ ncalls < Len(DriverCalls(script))
     /\ DriverCalls(script)[ncalls + 1].role = "selector")
    => Attainable = 1..CatalogSize[DriverCalls(script)[ncalls + 1].family]


\* the violations of C27 and C28 are those of one call each
OwnLabelElsewhere ==
    (args # NoArgs /\ args.family # "a2.Q3_First_Translation") => C27_OwnLabelPerArgument

SelectableElsewhere ==
    (ncalls < Len(DriverCalls(script))
     /\ DriverCalls(script)[ncalls + 1].family # "a1.Q8_get_limit_LHopital")
    => C28_EveryVariantSelectable

-----------------------------------------------------------------------------
(* Properties of the order of the steps *)

\* C23: in a compiling script the compiler has run for the record under way
\* only if its .tex file is written, and a record has been rendered or
\* written only if the counter of every record before it has been updated
C23_StrictlySequential ==
    script \in CompilingScripts =>
       /\ returncodes # <<>> => <<Record, "tex">> \in files
       /\ \A k \in DOMAIN roster :
             (processed[k] > 0 \/ <<k, "tex">> \in files)
             => count_success + count_fail >= k - 1

\* the second record is rendered, the first is counted and its files are there
C23_Witness ==
    /\ script \in CompilingScripts
    /\ dpc = "write"
    /\ Record = 2
    /\ processed[2] = 1
    /\ count_success + count_fail = 1
    /\ <<1, "tex">> \in files

-----------------------------------------------------------------------------
(* Termination *)

\* C24: when every compiler invocation returns, a call of
\* compile_latex_to_pdf never makes more than 2 invocations or more than 10
\* looks at the PDF path, and the run reaches the end of the script
C24_Terminates ==
    /\ [](Len(returncodes) <= CompilerRuns /\ polls <= PollLimit)
    /\ <>(dpc = "done")

\* a run over a full roster has ended after a failed and a successful record
C24_Witness ==
    /\ dpc = "done"
    /\ script \in CompilingScripts
    /\ count_success >= 1
    /\ count_fail >= 1
    /\ count_success + count_fail = Len(roster)

-----------------------------------------------------------------------------
(* Properties of the counters *)

\* number of roster rows rendered so far
RowsProcessed == Cardinality({k \in DOMAIN roster : processed[k] > 0})

\* at every iteration boundary of a compiling script the two counters add up
\* to the rows processed so far, which are the rows passed
CountersMatchProcessed ==
    (script \in CompilingScripts /\ dpc \in {"read", "cleanup", "done"})
    => (count_success + count_fail = RowsProcessed /\ RowsProcessed = row - START_ROW(script))

\* a step changes the counters only by adding one to one of them, and only
\* where a record is counted
CountersStepByOne ==
    [][\/ (count_success' = count_success /\ count_fail' = count_fail)
       \/ /\ dpc = "count"
          /\ \/ (count_success' = count_success + 1 /\ count_fail' = count_fail)
             \/ (count_success' = count_success /\ count_fail' = count_fail + 1)]_vars

\* C26: at every iteration boundary of the main loop of a compiling script
\* count_success + count_fail is the number of roster rows processed so far,
\* and when the script has finished the sum is the number of rows before the
\* first row whose identifier is empty or absent (that the counters grow by
\* one per record is CountersStepByOne)
C26_CountersAddUp ==
    /\ CountersMatchProcessed
    /\ (script \in CompilingScripts /\ dpc = "done")
       => count_success + count_fail = FirstEmptyRow - 1

-----------------------------------------------------------------------------
(* Properties of the derived display values *)

\* the part of s after its last element in cs
AfterLast(s, cs) == SubSeq(s, LastIn(s, cs) + 1, Len(s))

\* the run of decimal digits of s that ends at position k
RECURSIVE DigitsEndingAt(_, _)
DigitsEndingAt(s, k) ==
    IF k = 0 \/ ~IsDigit(s[k], 10) THEN <<>>
    ELSE Append(DigitsEndingAt(s, k - 1), s[k])

\* the number rendered in front of the piece of text `piece`
CoefficientOf(s, piece) ==
    DigitsEndingAt(s, (CHOOSE k \in 1..Len(s) : s[k] = piece) - 1)

\* the right-hand constant of graphing variant n by direct arithmetic; the
\* catalog starts with `ratio` templates whose constant is b, followed by as
\* many templates with 2a+b as with 2a-b
DirectConstant(n, a, b, ratio, K) ==
    IF n <= ratio THEN b
    ELSE IF n <= ratio + (K - ratio) \div 2 THEN 2 * a + b
    ELSE 2 * a - b

\* C25: every derived display value is the result of the direct integer
\* arithmetic on the parameters: the right-hand constant rendered by Q2 and
\* Q3 of Ass-01.py is 2a+b or 2a-b (b in the ratio templates) for a in 4..9
\* and b in 1..7, the x^2 y coefficient rendered by Q14 is 3e (variants 1-2)
\* or 3c (variants 3-4) next to the y^3 coefficient e or c, and the
\* eval-based get_graphing_question_equality renders the same constant as the
\* direct computation
C25_DerivedValuesDirect ==
    pc = "done_derived" =>
       /\ result.ok
       /\ LET a == args.p[1]
              b == args.p[2]
          IN  CASE args.fn = "a1.Q2_get_graphing_question_equality" ->
                       AfterLast(SubSeq(result.val, 2, Len(result.val) - 1), {"="})
                           = IntStr(DirectConstant(args.n, a, b, 1, 5))
                [] args.fn = "a1.Q3_get_graphing_question_inequality" ->
                       AfterLast(SubSeq(result.val, 2, Len(result.val) - 1), {" "})
                           = IntStr(DirectConstant(args.n, a, b, 4, 20))
                [] args.fn = "sq.get_graphing_question_equality" ->
                       AfterLast(result.val, {"="})
                           = IntStr(DirectConstant(args.n, a, b, 1, 5))
                [] args.fn = "a1.Q14_get_harmonic" ->
                       LET cubic == IF args.n <= 2 THEN args.p[5] ELSE args.p[3]
                       IN  /\ CoefficientOf(result.val, "y^3 \\;+\\; ") = IntStr(cubic)
                           /\ CoefficientOf(result.val, "\\,x^2y \\;-\\; ") = IntStr(3 * cubic)

\* the eval-based function has rendered 2a-b = 1 for a = 4, b = 7
C25_Witness ==
    /\ pc = "done_derived"
    /\ args.fn = "sq.get_graphing_question_equality"
    /\ args.n = 5
    /\ args.p = <<4, 7>>
    /\ result = Ok(<<"|", "z", "-", "4", "i", "|", "-", "|", "z", "+", "4", "i", "|", "=", "1">>)

=============================================================================
